---- MODULE Spec2Model ----
(***************************************************************************)
(* Model of the VBS build orchestrator (src/src/index.mjs), its LLM        *)
(* gateway (sendMessage / extractJSON in client.mjs) and the file writer.  *)
(*                                                                         *)
(* The specifications of the module:                                       *)
(*   Spec          one build run of run(), phase by phase                  *)
(*   SpecSend      one sendMessage call with its truncation retries        *)
(*   SpecJSON      extractJSON applied to wrapped / truncated documents    *)
(*   SpecRegistry  the project registry under successive registrations     *)
(*   SpecCommands  successive modify / open / list commands                *)
(*   SpecCli       one build run, or successive commands                   *)
(***************************************************************************)
EXTENDS Integers, Sequences, FiniteSets, TLC

VARIABLES
    \* ---- run() ----------------------------------------------------------
    pc,            \* position of the run inside run()
    projectType,   \* options.type
    hasKey,        \* process.env.DEEPSEEK_API_KEY is set
    hasPrompt,     \* userPrompt is non-blank
    analysis,      \* result of analyzeRequest
    codeResult,    \* result of generateCode
    phases,        \* phase headers shown so far (showPhaseHeader calls)
    errLog,        \* errors raised so far: where, what kind, how many phases had started
    thrown,        \* exception in flight towards the catch of run() ("none" if none)
    exitCode,      \* -1 while running, else the exit status of the process
    written,       \* absolute paths written (fs.writeFile) by the step just taken
    installs,      \* one record per runNpmInstall call
    loop,          \* locals of runBuildWithAutoFix while it runs
    buildOk,       \* "none", or what runBuildWithAutoFix returned: "ok" / "failed"
    launch,        \* state of the launch phase and of launchWithPm2
    tests,         \* state of the endpoint-test phase
    persist,       \* state of the persist phase
    \* ---- sendMessage ----------------------------------------------------
    send,          \* one sendMessage call: its arguments, loop variables and calls
    \* ---- extractJSON ----------------------------------------------------
    json,          \* one extractJSON call: the document, the text given, the result
    \* ---- registry, project configs and commands --------------------------
    registry,      \* the projects array of ~/.vbs/projects.json (<<>>: no file)
    regCall,       \* the last call of a registry function, and the entries registered
    disk,          \* the project directory /srv/shop and its config.vbs
    now,           \* the clock: the next timestamp new Date() gives
    cmd,           \* the modify / open / list command being run
    \* ---- single functions ------------------------------------------------
    cfgBuild,      \* the config.vbs built by the persist phase: inputs and result
    gen,           \* generateFullstackParallel: the two calls and the merged result
    genCalls,      \* the generator calls of one run or modify, each with its model
    proxy,         \* one nginx configuration: its steps, what it reports and returns
    probe,         \* testEndpoint: the endpoint, what fetch did, the result
    suite,         \* testAllEndpoints: the endpoints, the request in flight, the results
    race           \* two registerProject calls of two processes, and projects.json

runVars == <<pc, projectType, hasKey, hasPrompt, analysis, codeResult, phases,
             errLog, thrown, exitCode, written, installs, loop, buildOk, launch, tests,
             persist>>

\* what a step of run() leaves alone
cli == <<registry, regCall, disk, now, cmd>>

\* the variables of the specifications of single functions
aux == <<cfgBuild, gen, genCalls, proxy, probe, suite, race>>

\* what a step of run() leaves alone
others == <<send, json, cli, aux>>

vars == <<runVars, send, json, cli, aux>>

-----------------------------------------------------------------------------
(* Bounds of the model *)

\* most files in one GeneratedProject
MaxFiles == 1
\* most patches in one Fixer answer
MaxPatches == 1

(* Program constants *)

\* runBuildWithAutoFix(buildDir, projectName, maxAttempts = 5)
maxAttempts == 5

Types == {"api", "frontend", "fullstack"}

-----------------------------------------------------------------------------
(* Paths.  A path is the sequence of its '/'-separated segments; a leading  *)
(* empty segment is the absolute prefix ("/etc/x" is <<"", "etc", "x">>).   *)

projectDir == <<"home", "proj">>

\* file paths an LLM answer may carry
RelPaths ==
    { <<"src", "a.js">>,
      <<"..", "x.js">>,
      <<"", "etc", "x">>,
      <<"frontend", "src", "a.js">> }

RECURSIVE normalizeFrom(_, _)
normalizeFrom(acc, segs) ==
    IF segs = <<>> THEN acc
    ELSE LET s == Head(segs) IN
         IF s = "" \/ s = "."
         THEN normalizeFrom(acc, Tail(segs))
         ELSE IF s = ".."
         THEN normalizeFrom(IF acc = <<>> THEN acc
                            ELSE SubSeq(acc, 1, Len(acc) - 1), Tail(segs))
         ELSE normalizeFrom(Append(acc, s), Tail(segs))

\* path.join(base, rel) for an absolute base: concatenate, then normalize
join(base, rel) == normalizeFrom(<<>>, base \o rel)

IsUnder(root, p) ==
    /\ Len(p) >= Len(root)
    /\ SubSeq(p, 1, Len(root)) = root

\* all sequences over S of length lo..hi
SeqsOf(S, lo, hi) == UNION { [1..n -> S] : n \in lo..hi }

\* writeProjectFiles(dir, files): every file is written at join(dir, file.path),
\* with no check of the path
writeProjectFiles(dir, files) == { join(dir, files[i]) : i \in 1..Len(files) }

-----------------------------------------------------------------------------
NoAnalysis == [got |-> FALSE, isStatic |-> FALSE, hasStack |-> FALSE]
NoCode     == [got |-> FALSE, files |-> <<>>, meta |-> "missing"]
NoLoop     == [pc |-> "idle", dir |-> <<>>, attempt |-> 0, builds |-> 0,
               fixerCalls |-> 0, patches |-> <<>>, skipped |-> 0, why |-> "none"]
NoLaunch   == [pc |-> "idle", queue |-> <<>>, nextjs |-> FALSE, polled |-> FALSE,
               backendOnline |-> FALSE, frontendOnline |-> FALSE,
               nginxConfigPath |-> FALSE]
NoTests    == [results |-> 0, notes |-> FALSE]
NoPersist  == [config |-> FALSE, registered |-> FALSE, summary |-> FALSE,
               success |-> FALSE]

NoSend     == [pc |-> "off", model |-> "none", maxTokens |-> 0, onToken |-> FALSE,
               attempt |-> 0, tokens |-> 0, calls |-> <<>>, text |-> 0]
NoJSON     == [pc |-> "off", doc |-> <<>>, text |-> <<>>, how |-> "none",
               out |-> [ok |-> FALSE, v |-> <<>>, err |-> "none"]]

\* a registry entry (lines 768-775 of run(); stack, port and createdAt are
\* carried like type) and the null of findProject
NoEntry == [name |-> "", dir |-> "", type |-> ""]

\* the project the run builds
projectName == "proj"

\* a registry left by earlier runs: another project, and one of the same name
SavedProjects ==
    << [name |-> "shop", dir |-> "/srv/shop", type |-> "api"],
       [name |-> projectName, dir |-> "/old/proj", type |-> "api"] >>

NoRegCall == [op |-> "none", arg |-> NoEntry, out |-> <<>>, log |-> <<>>]

\* a config.vbs as written by run() (lines 738-758): the fields the commands
\* read; "" stands for null
NoConfig == [name |-> "", type |-> "", backendPm2 |-> "", frontend |-> FALSE,
             frontendPm2 |-> "", updatedAt |-> 0, modificationHistory |-> <<>>]

NoDisk == [dir |-> FALSE, file |-> "none", config |-> NoConfig]

NoResult == [files |-> <<>>, rebuildRequired |-> FALSE, restartRequired |-> "missing"]

NoCmd == [op |-> "none", name |-> "", pc |-> "idle", entry |-> NoEntry, via |-> "none",
          configVbs |-> NoConfig, result |-> NoResult, gateway |-> 0,
          installed |-> FALSE, rebuilt |-> FALSE,
          restarted |-> <<>>, updated |-> FALSE, out |-> <<>>, message |-> "none",
          thrown |-> FALSE, exit |-> -1, modifies |-> 0]

\* ids of the questions the Questioner may ask (questioner.mjs 9-14, 91-97:
\* database password, JWT secret, SMTP, third-party API keys) besides port
AnswerKeys == {"port", "database_password", "jwt_secret", "smtp_password", "stripe_api_key"}

\* the configVbs of lines 738-758 before it is filled ("null" is null)
NoBuiltConfig == [type |-> "", isStatic |-> FALSE, backend |-> "null", frontend |-> "null",
                  frontendPm2 |-> "null", endpoints |-> 0,
                  answers |-> [k \in AnswerKeys |-> "absent"]]

\* the persist phase has built no config
NoCfgBuild == [pc |-> "off", projectType |-> "api", isStatic |-> FALSE,
               userAnswers |-> [k \in AnswerKeys |-> "absent"], allEndpoints |-> 0,
               config |-> NoBuiltConfig, written |-> FALSE]

\* what one of the two calls of generateFullstackParallel resolved to
NoPart == [files |-> <<>>, keys |-> "full"]

NoGen == [pc |-> "off", back |-> "idle", front |-> "idle", backResult |-> NoPart,
          frontResult |-> NoPart, order |-> <<>>,
          merged |-> [files |-> <<>>, backendPm2Name |-> FALSE, frontendPm2Name |-> FALSE]]

NoCalls == [pc |-> "off", complexity |-> "simple", projectType |-> "api",
            isStatic |-> FALSE, used |-> <<>>]

NoProxy == [pc |-> "off", site |-> "static site", isRoot |-> FALSE, wrote |-> "none",
            enabled |-> "none", validated |-> "none", reloaded |-> "none",
            reported |-> "none", returned |-> "none", recorded |-> FALSE]

NoOutcome == [kind |-> "none", status |-> 0, name |-> "", bodyRead |-> FALSE]

NoTestResult == [method |-> "", status |-> 0, passed |-> FALSE, note |-> ""]

NoProbe == [pc |-> "off", method |-> "", outcome |-> NoOutcome, result |-> NoTestResult]

NoSuite == [pc |-> "off", endpoints |-> <<>>, sent |-> 0, delays |-> 0, results |-> <<>>]

NoCaller == [pc |-> "off", entry |-> NoEntry, reg |-> <<>>]

NoRace == [file |-> <<>>, p1 |-> NoCaller, p2 |-> NoCaller, log |-> <<>>]

\* no single function is under check
AuxOff ==
    /\ cfgBuild = NoCfgBuild
    /\ gen = NoGen
    /\ genCalls = NoCalls
    /\ proxy = NoProxy
    /\ probe = NoProbe
    /\ suite = NoSuite
    /\ race = NoRace

\* no registry call and no command is under way
CliOff ==
    /\ registry = <<>>
    /\ regCall = NoRegCall
    /\ disk = NoDisk
    /\ now = 1
    /\ cmd = NoCmd

\* run() has not been entered
RunOff ==
    /\ pc = "off"
    /\ projectType = "api"
    /\ hasKey = FALSE
    /\ hasPrompt = FALSE
    /\ analysis = NoAnalysis
    /\ codeResult = NoCode
    /\ phases = <<>>
    /\ errLog = {}
    /\ thrown = "none"
    /\ exitCode = -1
    /\ written = {}
    /\ installs = <<>>
    /\ loop = NoLoop
    /\ buildOk = "none"
    /\ launch = NoLaunch
    /\ tests = NoTests
    /\ persist = NoPersist

Init ==
    /\ send = NoSend
    /\ json = NoJSON
    /\ AuxOff
    /\ registry = SavedProjects
    /\ regCall = NoRegCall
    /\ disk = NoDisk
    /\ now = 1
    /\ cmd = NoCmd
    /\ pc = "startup"
    /\ projectType \in Types
    /\ hasKey \in BOOLEAN
    /\ hasPrompt \in BOOLEAN
    /\ analysis = NoAnalysis
    /\ codeResult = NoCode
    /\ phases = <<>>
    /\ errLog = {}
    /\ thrown = "none"
    /\ exitCode = -1
    /\ written = {}
    /\ installs = <<>>
    /\ loop = NoLoop
    /\ buildOk = "none"
    /\ launch = NoLaunch
    /\ tests = NoTests
    /\ persist = NoPersist

-----------------------------------------------------------------------------
(* Errors.  An error raised at a call site is logged with its kind and with *)
(* the number of phases started when it was raised (an action sets phases'  *)
(* before it raises).                                                       *)

Err(site, kind) == [site |-> site, kind |-> kind, nph |-> Len(phases')]

\* variant: the error is logged but control stays where it was raised
Throw_Stay(site, kind) ==
    /\ errLog' = errLog \cup {Err(site, kind)}
    /\ thrown' = site
    /\ pc' = pc

\* the error leaves the function and travels to the catch of run()
Throw(site, kind) ==
    /\ errLog' = errLog \cup {Err(site, kind)}
    /\ thrown' = site
    /\ pc' = "catch"

\* line 427: isStaticSite = !!(analysis.isStatic && projectType === 'frontend')
isStaticSite == analysis.isStatic /\ projectType = "frontend"

-----------------------------------------------------------------------------
(* PHASE 0: startup *)

\* variant: the key is not looked at before the first Gateway call
Phase0Startup_NoKeyCheck ==
    /\ pc = "startup"
    /\ IF ~hasPrompt
       THEN /\ exitCode' = 0
            /\ pc' = "exited"
       ELSE /\ pc' = "analysis"
            /\ UNCHANGED exitCode
    /\ written' = {}
    /\ UNCHANGED <<others, projectType, hasKey, hasPrompt, analysis, codeResult, phases,
                   errLog, thrown, installs, loop, buildOk, launch, tests, persist>>

Phase0Startup ==
    /\ pc = "startup"
    /\ IF ~hasKey
       THEN /\ exitCode' = 1                \* showErrorBox; process.exit(1)
            /\ pc' = "exited"
       ELSE IF ~hasPrompt
       THEN /\ exitCode' = 0                \* usage; process.exit(0)
            /\ pc' = "exited"
       ELSE /\ pc' = "analysis"
            /\ UNCHANGED exitCode
    /\ written' = {}
    /\ UNCHANGED <<others, projectType, hasKey, hasPrompt, analysis, codeResult, phases,
                   errLog, thrown, installs, loop, buildOk, launch, tests, persist>>

(* PHASE 1: analysis *)

\* what extractJSON may hand back as the Analysis: any parsed object, with or
\* without the keys the later phases read.  isStatic is read only at line 427,
\* in conjunction with projectType === 'frontend', and is kept as read there
AnalysisResults ==
    { [got |-> TRUE, isStatic |-> s /\ projectType = "frontend", hasStack |-> h] :
        s \in BOOLEAN, h \in BOOLEAN }

\* variant: the catch logs the error and lets the run go on
AnalysisCatch_Swallow ==
    /\ errLog' = errLog \cup {Err("analysis", "gateway")}
    /\ thrown' = thrown
    /\ pc' = "questions"

\* catch (err) { spinnerFail(...); throw err; }
AnalysisCatch == Throw("analysis", "gateway")

Phase1Analysis ==
    /\ pc = "analysis"
    /\ phases' = Append(phases, 1)
    /\ \/ /\ AnalysisCatch
          /\ UNCHANGED analysis
       \/ /\ \E a \in AnalysisResults : analysis' = a
          /\ pc' = "questions"
          /\ UNCHANGED <<errLog, thrown>>
    /\ written' = {}
    /\ UNCHANGED <<others, projectType, hasKey, hasPrompt, codeResult, exitCode, installs, loop, buildOk, launch, tests, persist>>

(* PHASE 2: configuration *)

\* catch (err) { spinnerFail(...); throw err; }
QuestionsCatch(kind) == Throw("questions", kind)

Phase2Questions ==
    /\ pc = "questions"
    /\ phases' = Append(phases, 2)
    /\ \/ QuestionsCatch("gateway")          \* sendMessage / extractJSON throws
       \/ QuestionsCatch("type")             \* parsed.questions missing: questions.length throws
       \/ /\ pc' = "sysprep"
          /\ UNCHANGED <<errLog, thrown>>
    /\ written' = {}
    /\ UNCHANGED <<others, projectType, hasKey, hasPrompt, analysis, codeResult, exitCode,
                   installs, loop, buildOk, launch, tests, persist>>

(* PHASE 3: system check and setup; every check warns instead of failing *)

Phase3SystemSetup ==
    /\ pc = "sysprep"
    /\ phases' = Append(phases, 3)
    /\ pc' = "codegen"
    /\ written' = {}
    /\ UNCHANGED <<others, projectType, hasKey, hasPrompt, analysis, codeResult, errLog,
                   thrown, exitCode, installs, loop, buildOk, launch, tests, persist>>

(* PHASE 4: code generation and file write *)

\* what extractJSON may hand back as the GeneratedProject.  meta: the keys
\* pm2Name / startCommand / allEndpoints are "missing", or present with
\* allEndpoints "empty" or "full"
CodeResults ==
    { [got |-> TRUE, files |-> f, meta |-> m] :
        f \in SeqsOf(RelPaths, 0, MaxFiles), m \in {"missing", "empty", "full"} }

\* catch (err) { stopCodeTimer(); spinnerFail(...); throw err; }
CodegenCatch(kind) == Throw("codegen", kind)

Phase4CodeGeneration ==
    /\ pc = "codegen"
    /\ phases' = Append(phases, 4)
    /\ IF ~analysis.hasStack /\ ~isStaticSite
       THEN \* analysis.detectedStack.join(...) throws while the message is built
            /\ CodegenCatch("type")
            /\ UNCHANGED codeResult
       ELSE \/ /\ CodegenCatch("gateway")
               /\ UNCHANGED codeResult
            \/ \* the parsed object has no files: codeResult.files.length throws
               /\ CodegenCatch("type")
               /\ UNCHANGED codeResult
            \/ /\ \E r \in CodeResults : codeResult' = r
               /\ pc' = "write"
               /\ UNCHANGED <<errLog, thrown>>
    /\ written' = {}
    /\ UNCHANGED <<others, projectType, hasKey, hasPrompt, analysis, exitCode, installs, loop, buildOk, launch, tests, persist>>

\* line 520: await writeProjectFiles(projectDir, codeResult.files), outside any try.
\* fs.writeFile may reject at any file; the files before it have been written
Phase4WriteFiles ==
    /\ pc = "write"
    /\ UNCHANGED phases
    /\ \E k \in 0..Len(codeResult.files) :
         /\ written' = writeProjectFiles(projectDir, SubSeq(codeResult.files, 1, k))
         /\ IF k < Len(codeResult.files)
            THEN Throw("write", "io")
            ELSE /\ pc' = "install"
                 /\ UNCHANGED <<errLog, thrown>>
    /\ UNCHANGED <<others, projectType, hasKey, hasPrompt, analysis, codeResult,
                   exitCode, installs, loop, buildOk, launch, tests, persist>>

(* PHASE 5: install and build *)

\* variant: the second invocation is made whatever the first returned
npmResult_AlwaysTwice(dir, first, second) ==
    [dir |-> dir, first |-> first, calls |-> 2, ok |-> first \/ second]

\* lines 90-102 for the exit results of the two invocations (TRUE: exit 0):
\* the second is made only `if (!res.success)`, and the function returns
\* true or false
npmResult(dir, first, second) ==
    [dir |-> dir, first |-> first, calls |-> IF first THEN 1 ELSE 2,
     ok |-> first \/ second]

\* runNpmInstall(dir): npm install --legacy-peer-deps, then once more without
\* the flag if that failed; a second failure is a warning, never an error
runNpmInstall(dir) == { npmResult(dir, first, second) : first, second \in BOOLEAN }

backendDir  == projectDir \o <<"backend">>
frontendDir == projectDir \o <<"frontend">>

\* the loop variables of runBuildWithAutoFix on entry
StartLoop(dir) == [NoLoop EXCEPT !.pc = "build", !.dir = dir, !.attempt = 1]

\* variant: an api project is built as well
Phase5Install_ApiBuilds ==
    /\ pc = "install"
    /\ phases' = Append(phases, 5)
    /\ IF projectType = "api" \/ (projectType = "frontend" /\ ~isStaticSite)
       THEN /\ \E r \in runNpmInstall(projectDir) : installs' = <<r>>
            /\ loop' = StartLoop(projectDir)
            /\ pc' = "build"
       ELSE IF projectType = "fullstack"
       THEN /\ \E r1 \in runNpmInstall(backendDir), r2 \in runNpmInstall(frontendDir) :
                  installs' = <<r1, r2>>
            /\ loop' = StartLoop(frontendDir)
            /\ pc' = "build"
       ELSE /\ pc' = "launch"
            /\ UNCHANGED <<installs, loop>>
    /\ written' = {}
    /\ UNCHANGED <<others, projectType, hasKey, hasPrompt, analysis, codeResult, errLog,
                   thrown, exitCode, buildOk, launch, tests, persist>>

Phase5Install ==
    /\ pc = "install"
    /\ phases' = Append(phases, 5)
    /\ IF projectType = "api"
       THEN /\ \E r \in runNpmInstall(projectDir) : installs' = <<r>>
            /\ pc' = "launch"
            /\ UNCHANGED loop
       ELSE IF projectType = "frontend" /\ ~isStaticSite
       THEN /\ \E r \in runNpmInstall(projectDir) : installs' = <<r>>
            /\ loop' = StartLoop(projectDir)
            /\ pc' = "build"
       ELSE IF projectType = "fullstack"
       THEN /\ \E r1 \in runNpmInstall(backendDir), r2 \in runNpmInstall(frontendDir) :
                  installs' = <<r1, r2>>
            /\ loop' = StartLoop(frontendDir)
            /\ pc' = "build"
       ELSE /\ pc' = "launch"                 \* static site: nothing to install
            /\ UNCHANGED <<installs, loop>>
    /\ written' = {}
    /\ UNCHANGED <<others, projectType, hasKey, hasPrompt, analysis, codeResult, errLog,
                   thrown, exitCode, buildOk, launch, tests, persist>>

\* variant: the ceiling test is `attempt > maxAttempts`
BuildAttempt_PastCeiling ==
    /\ pc = "build"
    /\ loop.pc = "build"
    /\ \/ loop' = [loop EXCEPT !.pc = "ok", !.builds = @ + 1]
       \/ IF loop.attempt > maxAttempts
          THEN loop' = [loop EXCEPT !.pc = "failed", !.builds = @ + 1, !.why = "ceiling"]
          ELSE loop' = [loop EXCEPT !.pc = "fix", !.builds = @ + 1]
    /\ written' = {}
    /\ UNCHANGED <<others, pc, projectType, hasKey, hasPrompt, analysis, codeResult, phases,
                   errLog, thrown, exitCode, installs, buildOk, launch, tests, persist>>

\* lines 217-239: one `npm run build`; success ends the loop, a failure at the
\* last attempt ends it with the warning
BuildAttempt ==
    /\ pc = "build"
    /\ loop.pc = "build"
    /\ \/ loop' = [loop EXCEPT !.pc = "ok", !.builds = @ + 1]
       \/ IF loop.attempt >= maxAttempts
          THEN loop' = [loop EXCEPT !.pc = "failed", !.builds = @ + 1, !.why = "ceiling"]
          ELSE loop' = [loop EXCEPT !.pc = "fix", !.builds = @ + 1]
    /\ written' = {}
    /\ UNCHANGED <<others, pc, projectType, hasKey, hasPrompt, analysis, codeResult, phases,
                   errLog, thrown, exitCode, installs, buildOk, launch, tests, persist>>

\* lines 264-268: catch (err) { ...; return false; } around fixBuildErrors
FixerCatch ==
    /\ UNCHANGED phases
    /\ errLog' = errLog \cup {Err("fixer", "gateway")}
    /\ loop' = [loop EXCEPT !.pc = "failed", !.fixerCalls = @ + 1, !.why = "fixerError"]
    /\ UNCHANGED <<pc, thrown>>

\* fixBuildErrors: `result.patches || []`, so an answer without patches is []
FixerResults == SeqsOf(RelPaths, 0, MaxPatches)

\* lines 241-273
FixerCall ==
    /\ pc = "build"
    /\ loop.pc = "fix"
    /\ \/ FixerCatch
       \/ /\ \E p \in FixerResults :
               IF p = <<>>
               THEN loop' = [loop EXCEPT !.pc = "failed", !.fixerCalls = @ + 1,
                                         !.why = "noPatches"]
               ELSE loop' = [loop EXCEPT !.pc = "apply", !.fixerCalls = @ + 1,
                                         !.patches = p, !.skipped = 0]
          /\ UNCHANGED <<pc, phases, errLog, thrown>>
    /\ written' = {}
    /\ UNCHANGED <<others, projectType, hasKey, hasPrompt, analysis, codeResult,
                   exitCode, installs, buildOk, launch, tests, persist>>

\* line 278: patch.path.replace(/^frontend\//, '').replace(/^backend\//, '')
StripPrefix(path, name) ==
    IF Len(path) >= 2 /\ Head(path) = name THEN Tail(path) ELSE path

relPath(path) == StripPrefix(StripPrefix(path, "frontend"), "backend")

\* variant: the loop goes back to the build without waiting for the writes
ApplyPatches_NoWait ==
    /\ pc = "build"
    /\ loop.pc = "apply"
    /\ written' = {}
    /\ loop' = [loop EXCEPT !.pc = "build", !.attempt = @ + 1]
    /\ UNCHANGED <<others, pc, projectType, hasKey, hasPrompt, analysis, codeResult, phases,
                   errLog, thrown, exitCode, installs, buildOk, launch, tests, persist>>

\* lines 276-290, one turn of `for (const patch of patches)`: the patch is
\* written at join(buildDir, relPath), or the write fails and is logged and
\* skipped; after the last patch the next attempt starts
ApplyPatches ==
    /\ pc = "build"
    /\ loop.pc = "apply"
    /\ \E ok \in BOOLEAN :
          /\ written' = IF ok THEN { join(loop.dir, relPath(Head(loop.patches))) } ELSE {}
          /\ loop' = [loop EXCEPT
                        !.patches = Tail(@),
                        !.skipped = IF ok THEN @ ELSE @ + 1,
                        !.pc      = IF Len(loop.patches) = 1 THEN "build" ELSE "apply",
                        !.attempt = IF Len(loop.patches) = 1 THEN @ + 1 ELSE @]
    /\ UNCHANGED <<others, pc, projectType, hasKey, hasPrompt, analysis, codeResult, phases,
                   errLog, thrown, exitCode, installs, buildOk, launch, tests, persist>>

\* variant: a build that failed for good is an error of the run
LoopReturn_Abort ==
    /\ pc = "build"
    /\ loop.pc \in {"ok", "failed"}
    /\ buildOk' = loop.pc
    /\ loop' = NoLoop
    /\ UNCHANGED phases
    /\ IF loop.pc = "failed"
       THEN Throw("build", "build")
       ELSE pc' = "launch" /\ UNCHANGED <<errLog, thrown>>
    /\ written' = {}
    /\ UNCHANGED <<others, projectType, hasKey, hasPrompt, analysis, codeResult,
                   exitCode, installs, launch, tests, persist>>

\* variant: the loop returns false whatever the last attempt gave
LoopReturn_AlwaysFalse ==
    /\ pc = "build"
    /\ loop.pc \in {"ok", "failed"}
    /\ buildOk' = "failed"
    /\ loop' = NoLoop
    /\ pc' = "launch"
    /\ written' = {}
    /\ UNCHANGED <<others, projectType, hasKey, hasPrompt, analysis, codeResult, phases,
                   errLog, thrown, exitCode, installs, launch, tests, persist>>

\* runBuildWithAutoFix returns; lines 535-538 / 549-552: buildOk is kept, a
\* failed build is a warning, and the run goes on to the launch phase
LoopReturn ==
    /\ pc = "build"
    /\ loop.pc \in {"ok", "failed"}
    /\ buildOk' = loop.pc
    /\ loop' = NoLoop
    /\ pc' = "launch"
    /\ written' = {}
    /\ UNCHANGED <<others, projectType, hasKey, hasPrompt, analysis, codeResult, phases,
                   errLog, thrown, exitCode, installs, launch, tests, persist>>

(* PHASE 6: launch *)

\* the processes run() hands to launchWithPm2, in order
LaunchQueue(nextjs) ==
    IF projectType = "api" THEN <<"backend">>
    ELSE IF projectType = "frontend"
    THEN (IF ~isStaticSite /\ nextjs THEN <<"frontend">> ELSE <<>>)
    ELSE (IF nextjs THEN <<"backend", "frontend">> ELSE <<"backend">>)

\* lines 558-565 and the branch on the project type.  isNextJs comes from
\* codeResult.frontendFramework || userAnswers.frontend_framework || 'react'
Phase6Launch ==
    /\ pc = "launch"
    /\ launch.pc = "idle"
    /\ phases' = Append(phases, 6)
    /\ \E nextjs \in BOOLEAN :
         LET q == LaunchQueue(nextjs) IN
         launch' = [launch EXCEPT !.nextjs = nextjs, !.queue = q,
                                  !.pc = IF q = <<>> THEN "nginx" ELSE "delete"]
    /\ written' = {}
    /\ UNCHANGED <<others, pc, projectType, hasKey, hasPrompt, analysis, codeResult, errLog,
                   thrown, exitCode, installs, loop, buildOk, tests, persist>>

\* `return online` of launchWithPm2 and the assignment to backendOnline /
\* frontendOnline in run(); then the next process, or the nginx step
LaunchReturn(online) ==
    LET proc == Head(launch.queue)
        rest == Tail(launch.queue) IN
    launch' = [launch EXCEPT
                 !.backendOnline  = IF proc = "backend"  THEN online ELSE @,
                 !.frontendOnline = IF proc = "frontend" THEN online ELSE @,
                 !.polled = FALSE,
                 !.queue = rest,
                 !.pc = IF rest = <<>> THEN "nginx" ELSE "delete"]

\* line 106: await exec('pm2', ['delete', pm2Name])
Pm2Delete ==
    /\ pc = "launch"
    /\ launch.pc = "delete"
    /\ launch' = [launch EXCEPT !.pc = "start", !.polled = FALSE]
    /\ written' = {}
    /\ UNCHANGED <<others, pc, projectType, hasKey, hasPrompt, analysis, codeResult, phases,
                   errLog, thrown, exitCode, installs, loop, buildOk, tests, persist>>

\* variant: a direct start that exits with 0 is taken as online, without a poll
Pm2Start_TrustExit ==
    /\ pc = "launch"
    /\ launch.pc = "start"
    /\ \/ LaunchReturn(TRUE)
       \/ launch' = [launch EXCEPT !.pc = "eco"]
    /\ written' = {}
    /\ UNCHANGED <<others, pc, projectType, hasKey, hasPrompt, analysis, codeResult, phases,
                   errLog, thrown, exitCode, installs, loop, buildOk, tests, persist>>

\* lines 111-114: pm2 start <args>
Pm2Start ==
    /\ pc = "launch"
    /\ launch.pc = "start"
    /\ \/ launch' = [launch EXCEPT !.pc = "poll"]
       \/ launch' = [launch EXCEPT !.pc = "eco"]
    /\ written' = {}
    /\ UNCHANGED <<others, pc, projectType, hasKey, hasPrompt, analysis, codeResult, phases,
                   errLog, thrown, exitCode, installs, loop, buildOk, tests, persist>>

\* the directory launchWithPm2 is given for a process
LaunchDir(proc) ==
    IF projectType = "fullstack"
    THEN (IF proc = "backend" THEN backendDir ELSE frontendDir)
    ELSE projectDir

\* lines 115-125: write ecosystem.config.js (fs.writeFile, outside any try),
\* pm2 start <config>; a failed start returns false
Pm2Ecosystem ==
    /\ pc = "launch"
    /\ launch.pc = "eco"
    /\ UNCHANGED phases
    /\ \/ /\ Throw("ecosystem", "io")
          /\ written' = {}
          /\ UNCHANGED launch
       \/ /\ written' = { join(LaunchDir(Head(launch.queue)), <<"ecosystem.config.js">>) }
          /\ \/ launch' = [launch EXCEPT !.pc = "poll"]
             \/ LaunchReturn(FALSE)
          /\ UNCHANGED <<pc, errLog, thrown>>
    /\ UNCHANGED <<others, projectType, hasKey, hasPrompt, analysis, codeResult,
                   exitCode, installs, loop, buildOk, tests, persist>>

\* lines 127-133: settle delay, then isPm2Online
Pm2Poll ==
    /\ pc = "launch"
    /\ launch.pc = "poll"
    /\ \/ LaunchReturn(TRUE)
       \/ launch' = [launch EXCEPT !.pc = "logs", !.polled = TRUE]
    /\ written' = {}
    /\ UNCHANGED <<others, pc, projectType, hasKey, hasPrompt, analysis, codeResult, phases,
                   errLog, thrown, exitCode, installs, loop, buildOk, tests, persist>>

\* lines 135-140: pm2 logs; without log text there is no diagnosis
Pm2Logs ==
    /\ pc = "launch"
    /\ launch.pc = "logs"
    /\ \/ launch' = [launch EXCEPT !.pc = "diag"]
       \/ LaunchReturn(FALSE)
    /\ written' = {}
    /\ UNCHANGED <<others, pc, projectType, hasKey, hasPrompt, analysis, codeResult, phases,
                   errLog, thrown, exitCode, installs, loop, buildOk, tests, persist>>

\* lines 145-153: await diagnoseFailure(logs, pm2Name), outside any try
DiagnoseFailure ==
    /\ pc = "launch"
    /\ launch.pc = "diag"
    /\ UNCHANGED phases
    /\ \/ /\ Throw("diag", "gateway")
          /\ UNCHANGED launch
       \/ /\ LaunchReturn(FALSE)
          /\ UNCHANGED <<pc, errLog, thrown>>
    /\ written' = {}
    /\ UNCHANGED <<others, projectType, hasKey, hasPrompt, analysis, codeResult,
                   exitCode, installs, loop, buildOk, tests, persist>>

\* variant: the endpoint tests are skipped when the backend is not online
NginxStep_SkipTest ==
    /\ pc = "launch"
    /\ launch.pc = "nginx"
    /\ \E path \in BOOLEAN :
         launch' = [launch EXCEPT
                      !.pc = "done",
                      !.nginxConfigPath = path /\ projectType # "api",
                      !.frontendOnline =
                          IF (projectType = "frontend" /\ (isStaticSite \/ ~launch.nextjs))
                             \/ (projectType = "fullstack" /\ ~launch.nextjs)
                          THEN TRUE ELSE @]
    /\ pc' = IF projectType # "frontend" /\ launch.backendOnline THEN "test" ELSE "persist"
    /\ written' = {}
    /\ UNCHANGED <<others, projectType, hasKey, hasPrompt, analysis, codeResult, phases,
                   errLog, thrown, exitCode, installs, loop, buildOk, tests, persist>>

\* the nginx step of the branch (configure* return the path or null and never
\* throw; not root: skipped), and frontendOnline = true for files nginx serves
NginxStep ==
    /\ pc = "launch"
    /\ launch.pc = "nginx"
    /\ \E path \in BOOLEAN :
         launch' = [launch EXCEPT
                      !.pc = "done",
                      !.nginxConfigPath = path /\ projectType # "api",
                      !.frontendOnline =
                          IF (projectType = "frontend" /\ (isStaticSite \/ ~launch.nextjs))
                             \/ (projectType = "fullstack" /\ ~launch.nextjs)
                          THEN TRUE ELSE @]
    /\ pc' = IF projectType # "frontend" THEN "test" ELSE "persist"
    /\ written' = {}
    /\ UNCHANGED <<others, projectType, hasKey, hasPrompt, analysis, codeResult, phases,
                   errLog, thrown, exitCode, installs, loop, buildOk, tests, persist>>

(* PHASE 7: endpoint tests (not for frontend projects) *)

\* lines 664-680: endpoints = codeResult.allEndpoints || []; testAllEndpoints
\* gives one result per endpoint and never throws
Phase7Test ==
    /\ pc = "test"
    /\ phases' = Append(phases, 7)
    /\ IF codeResult.meta = "full"
       THEN /\ tests' = [tests EXCEPT !.results = 1]
            /\ pc' = "notes"
       ELSE /\ pc' = "persist"
            /\ UNCHANGED tests
    /\ written' = {}
    /\ UNCHANGED <<others, projectType, hasKey, hasPrompt, analysis, codeResult, errLog,
                   thrown, exitCode, installs, loop, buildOk, launch, persist>>

\* lines 682-690: aiNotes = await analyzeTestResults(...), outside any try
TestNotes ==
    /\ pc = "notes"
    /\ UNCHANGED phases
    /\ \/ /\ Throw("testnotes", "gateway")
          /\ UNCHANGED tests
       \/ /\ tests' = [tests EXCEPT !.notes = TRUE]
          /\ pc' = "persist"
          /\ UNCHANGED <<errLog, thrown>>
    /\ written' = {}
    /\ UNCHANGED <<others, projectType, hasKey, hasPrompt, analysis, codeResult,
                   exitCode, installs, loop, buildOk, launch, persist>>

(* PHASE 8: save project and summary *)

\* lines 696-766: build configVbs; writeConfigVbs inside try/catch
Phase8Persist ==
    /\ pc = "persist"
    /\ phases' = Append(phases, 8)
    /\ \/ /\ persist' = [persist EXCEPT !.config = TRUE]
          /\ written' = { join(projectDir, <<"config.vbs">>) }
       \/ /\ written' = {}                   \* write failed: spinnerFail only
          /\ UNCHANGED persist
    /\ pc' = "register"
    /\ UNCHANGED <<others, projectType, hasKey, hasPrompt, analysis, codeResult, errLog,
                   thrown, exitCode, installs, loop, buildOk, launch, tests>>

\* variant: the entry is put first without dropping the one of the same name
registerProject_NoFilter(projects, entry) == <<entry>> \o projects

\* variant: the entry is put last
registerProject_Append(projects, entry) ==
    SelectSeq(projects, LAMBDA p : p.name # entry.name) \o <<entry>>

\* registry.mjs 25-30: load, drop the entries of the same name, put the entry
\* first (save is the caller's step)
registerProject(projects, entry) ==
    <<entry>> \o SelectSeq(projects, LAMBDA p : p.name # entry.name)

\* lines 768-776: await registerProject(...), outside any try; load() never
\* throws, save() may
RegisterProject ==
    /\ pc = "register"
    /\ UNCHANGED phases
    /\ \/ /\ Throw("register", "io")
          /\ UNCHANGED <<persist, registry>>
       \/ /\ persist' = [persist EXCEPT !.registered = TRUE]
          /\ registry' = registerProject(registry,
                 [name |-> projectName, dir |-> "/home/proj", type |-> projectType])
          /\ pc' = "summary"
          /\ UNCHANGED <<errLog, thrown>>
    /\ written' = {}
    /\ UNCHANGED <<send, json, aux, regCall, disk, now, cmd>>
    /\ UNCHANGED <<projectType, hasKey, hasPrompt, analysis, codeResult,
                   exitCode, installs, loop, buildOk, launch, tests>>

\* the directory the command was started in (process.cwd())
cwd == <<"home", "user">>

\* writeSummaryFiles: summary.txt in the project directory, then a copy in
\* the working directory; the first failing write raises
writeSummaryFiles(n) ==
    { SubSeq(<<join(projectDir, <<"summary.txt">>), join(cwd, <<"summary.txt">>)>>, 1, n)[i]
        : i \in 1..n }

\* lines 778-815: summary inside try/catch, showSuccessBox, normal return.
\* generateSummary and showSuccessBox are given names, ports and paths only:
\* the box is headed "Successfully Deployed!" and lists every pm2 process
\* name, whatever the install, build and launch results were
SummaryAndSuccess ==
    /\ pc = "summary"
    /\ \E n \in 0..2 :
         /\ persist' = [persist EXCEPT !.summary = (n = 2), !.success = TRUE]
         /\ written' = writeSummaryFiles(n)
    /\ pc' = "exited"
    /\ exitCode' = 0
    /\ UNCHANGED <<others, projectType, hasKey, hasPrompt, analysis, codeResult, phases,
                   errLog, thrown, installs, loop, buildOk, launch, tests>>

\* the process launchWithPm2 is working on has been reported online
HeadOnline(l) ==
    IF Head(l.queue) = "backend" THEN l.backendOnline ELSE l.frontendOnline

LaunchSteps == {"delete", "start", "eco", "poll", "logs", "diag"}

\* launchWithPm2 returns: run() goes on to the next process or to nginx
LaunchReturns == launch.pc \in LaunchSteps /\ launch'.queue # launch.queue

\* C36: a launch starts with the delete of the name, and the first start
\* comes right after it; the start from the generated config is tried only
\* after the direct start; the launch returns online only from the poll; a
\* launch whose two starts failed returns not online, with no poll made.
C36_LaunchProtocol ==
    /\ [][(launch'.queue # launch.queue /\ launch'.pc \in LaunchSteps)
            => launch'.pc = "delete"]_vars
    /\ [][(launch'.pc = "start" /\ launch.pc # "start") => launch.pc = "delete"]_vars
    /\ [][(launch'.pc = "eco" /\ launch.pc # "eco") => launch.pc = "start"]_vars
    /\ [][(launch'.pc = "poll" /\ launch.pc # "poll") => launch.pc \in {"start", "eco"}]_vars
    /\ [][(LaunchReturns /\ launch.pc # "poll") =>
            /\ launch'.backendOnline = launch.backendOnline
            /\ launch'.frontendOnline = launch.frontendOnline
            /\ ~HeadOnline(launch)]_vars
    /\ [][(LaunchReturns /\ launch.pc = "eco") => ~launch.polled]_vars

\* the direct start and the start from ecosystem.config.js have both failed:
\* the launch of the backend has returned, not online and with no poll
C36_Witness ==
    /\ pc = "launch"
    /\ launch.pc = "nginx"
    /\ written = { join(LaunchDir("backend"), <<"ecosystem.config.js">>) }
    /\ ~launch.backendOnline
    /\ ~launch.polled

\* C37: the build loop runs only for a frontend project that is not a static
\* site and for a fullstack project; the endpoint tests run only for an api
\* or a fullstack project; a static site has no install, no build and no
\* process launched.
C37_BranchesByType ==
    /\ (loop.pc # "idle" \/ pc = "build") =>
          (projectType = "fullstack" \/ (projectType = "frontend" /\ ~isStaticSite))
    /\ (pc \in {"test", "notes"} \/ tests # NoTests) => projectType \in {"api", "fullstack"}
    /\ (\E i \in 1..Len(phases) : phases[i] = 7) => projectType # "frontend"
    /\ isStaticSite =>
          /\ installs = <<>>
          /\ loop = NoLoop /\ pc # "build"
          /\ launch.queue = <<>> /\ launch.pc \in {"idle", "nginx", "done"}
          /\ ~launch.backendOnline

\* a static site has been through the install and launch phases and has been
\* reported as deployed
C37_Witness ==
    /\ isStaticSite
    /\ persist.success
    /\ \A n \in {5, 6} : \E i \in 1..Len(phases) : phases[i] = n
    /\ installs = <<>>

\* C34: in one loop the Fixer is called at most maxAttempts - 1 times and
\* only after a failed attempt that is not the last; after an attempt that
\* succeeded the loop makes no build and no Fixer call, and returns true.
C34_FixerBelowCeiling ==
    /\ [](loop.fixerCalls <= maxAttempts - 1 /\ loop.builds <= maxAttempts)
    /\ [][loop'.fixerCalls > loop.fixerCalls =>
            /\ loop.pc = "fix"
            /\ loop.builds < maxAttempts
            /\ loop.fixerCalls < loop.builds]_vars
    /\ [][loop.pc = "ok" => (loop' = loop \/ (loop' = NoLoop /\ buildOk' = "ok"))]_vars
    /\ [][(loop.pc = "failed" /\ loop.why = "ceiling") =>
            (loop' = loop \/ (loop' = NoLoop /\ buildOk' = "failed"))]_vars

\* the last attempt allowed succeeded, after a Fixer call for each one before
C34_Witness ==
    /\ loop.pc = "ok"
    /\ loop.builds = maxAttempts
    /\ loop.fixerCalls = maxAttempts - 1

\* C33 (as claimed): a project is registered only with its config written;
\* after the success report the registry has the entry of the project and
\* its directory has the config file.
C33_RegisteredWithConfig ==
    /\ persist.registered => persist.config
    /\ persist.success =>
          /\ persist.config
          /\ \E i \in 1..Len(registry) : registry[i].name = projectName

(* the catch of run() *)

\* lines 817-825: print the error, process.exit(1)
TopLevelCatch ==
    /\ pc = "catch"
    /\ pc' = "exited"
    /\ exitCode' = 1
    /\ written' = {}
    /\ UNCHANGED <<others, projectType, hasKey, hasPrompt, analysis, codeResult, phases,
                   errLog, thrown, installs, loop, buildOk, launch, tests, persist>>

Next ==
    \/ Phase0Startup
    \/ Phase1Analysis
    \/ Phase2Questions
    \/ Phase3SystemSetup
    \/ Phase4CodeGeneration
    \/ Phase4WriteFiles
    \/ Phase5Install
    \/ BuildAttempt
    \/ FixerCall
    \/ ApplyPatches
    \/ LoopReturn
    \/ Phase6Launch
    \/ Pm2Delete
    \/ Pm2Start
    \/ Pm2Ecosystem
    \/ Pm2Poll
    \/ Pm2Logs
    \/ DiagnoseFailure
    \/ NginxStep
    \/ Phase7Test
    \/ TestNotes
    \/ Phase8Persist
    \/ RegisterProject
    \/ SummaryAndSuccess
    \/ TopLevelCatch

Spec == Init /\ [][Next]_vars

-----------------------------------------------------------------------------
(* Properties of a build run (Spec) *)

Range(f) == { f[i] : i \in DOMAIN f }

\* C1 (as claimed): no file is ever written outside the project root
\* directory, whatever path a GeneratedProject or a Fixer patch carries.
C1_WritesInsideRoot == \A p \in written : IsUnder(projectDir, p)

\* C2 (as claimed): whenever the auto-fix loop gives up, it has made exactly
\* maxAttempts (5) build attempts.
C2_ExactlyCeiling == loop.pc = "failed" => loop.builds = maxAttempts

\* C2 (amended): the loop makes at most maxAttempts build attempts and one
\* Fixer call between two attempts; it gives up at the ceiling after exactly
\* maxAttempts attempts, and earlier only because the Fixer call raised or
\* returned no patches; what it returns is kept as the build result.
C2_AtMostCeiling ==
    /\ loop.builds <= maxAttempts
    /\ loop.fixerCalls <= loop.builds
    /\ loop.pc = "failed" =>
          /\ loop.why \in {"ceiling", "fixerError", "noPatches"}
          /\ loop.why = "ceiling" <=> loop.builds = maxAttempts
          /\ loop.why # "ceiling" => loop.fixerCalls = loop.builds
    /\ loop.pc \in {"build", "fix", "apply"} => loop.builds < maxAttempts
    /\ buildOk # "none" => loop = NoLoop

C2_Witness == loop.pc = "failed" /\ loop.why = "ceiling" /\ loop.builds = maxAttempts

PhaseOrder ==
    /\ \A i \in 1..Len(phases) : phases[i] \in 1..8
    /\ Len(phases) >= 1 => phases[1] = 1
    /\ \A i \in 1..(Len(phases) - 1) :
          \/ phases[i + 1] = phases[i] + 1
          \/ projectType = "frontend" /\ phases[i] = 6 /\ phases[i + 1] = 8

\* a phase starts only when the one before has completed: the loop has
\* returned, every launchWithPm2 has returned, nothing is in flight
PhaseStartsAfterCompletion ==
    phases' # phases =>
        /\ phases' = Append(phases, phases'[Len(phases')])
        /\ thrown = "none"
        /\ exitCode = -1
        /\ loop = NoLoop
        /\ launch.pc \in {"idle", "done"}
        /\ launch.queue = <<>>
        /\ Len(phases) >= 5 => (buildOk # "none" <=> installs # <<>> /\ projectType # "api")
        /\ Len(phases) >= 6 => launch.pc = "done"

\* C9: the phases start in the fixed order, each only after the previous one
\* has completed, and none starts once an error is in flight or the process
\* has exited.
C9_PhaseOrder == [](PhaseOrder) /\ [][PhaseStartsAfterCompletion]_vars

C9_Witness == phases = <<1, 2, 3, 4, 5, 6, 7, 8>> /\ buildOk = "failed" /\ pc = "exited"

\* launchWithPm2 has returned for proc
Launched(proc) ==
    /\ launch.pc # "idle"
    /\ proc \in Range(LaunchQueue(launch.nextjs))
    /\ proc \notin Range(launch.queue)

\* launchWithPm2 has returned false for proc
NotOnline(proc) ==
    /\ Launched(proc)
    /\ IF proc = "backend" THEN ~launch.backendOnline ELSE ~launch.frontendOnline

ReportedDeployed(proc) ==
    /\ persist.success
    /\ proc \in Range(LaunchQueue(launch.nextjs))

\* C11 (as claimed): the final report is truthful: no process that was not
\* confirmed online is reported as deployed, and the report is not a success
\* report when the build or an install failed.
C11_ReportTruthful ==
    /\ \A proc \in {"backend", "frontend"} : ReportedDeployed(proc) => ~NotOnline(proc)
    /\ persist.success =>
          /\ buildOk # "failed"
          /\ \A i \in 1..Len(installs) : installs[i].ok

\* C12: however the auto-fix loop gives up (ceiling, Fixer call failing, no
\* patches), its return raises nothing and leaves the exit code unset; the
\* failure is kept as the warning, the step writes and removes no file, and
\* the launch phase is the next to start.
C12_FailedBuildContinues ==
    /\ [][(pc = "build" /\ loop.pc = "failed") =>
            /\ loop.why \in {"ceiling", "fixerError", "noPatches"}
            /\ buildOk' = "failed"
            /\ pc' = "launch"
            /\ thrown' = "none" /\ thrown = "none"
            /\ exitCode' = -1
            /\ phases' = phases
            /\ written' = {}]_vars
    /\ [](buildOk = "failed" =>
            \/ pc = "launch" /\ launch.pc = "idle" /\ thrown = "none" /\ exitCode = -1
            \/ 6 \in Range(phases))

C12_Witness ==
    /\ buildOk = "failed"
    /\ 6 \in Range(phases)
    /\ \E e \in errLog : e.site = "fixer"

\* C13: npm is invoked once or twice for a directory, the second time
\* exactly when the first invocation failed, and each directory is installed
\* once; the install step raises nothing whatever the results, writes no
\* file, and hands over to the build or the launch.
C13_InstallRetriesOnce ==
    /\ [](\A i \in 1..Len(installs) :
             /\ installs[i].calls \in 1..2
             /\ installs[i].calls = 2 <=> ~installs[i].first
             /\ ~installs[i].ok => installs[i].calls = 2
             /\ \A j \in 1..Len(installs) : installs[i].dir = installs[j].dir => i = j)
    /\ [][installs' # installs =>
            /\ installs = <<>>
            /\ thrown' = "none"
            /\ errLog' = errLog
            /\ exitCode' = -1
            /\ pc' \in {"build", "launch"}
            /\ written' = {}]_vars

C13_Witness ==
    /\ Len(installs) = 2
    /\ ~installs[1].ok
    /\ installs[2].ok /\ installs[2].calls = 2
    /\ 6 \in Range(phases)

LoopInOrder ==
    /\ loop.pc = "build" => /\ loop.builds = loop.attempt - 1
                            /\ loop.fixerCalls = loop.attempt - 1
                            /\ loop.patches = <<>>
    /\ loop.pc = "fix"   => /\ loop.builds = loop.attempt
                            /\ loop.fixerCalls = loop.attempt - 1
                            /\ loop.patches = <<>>
    /\ loop.pc = "apply" => /\ loop.builds = loop.attempt
                            /\ loop.fixerCalls = loop.attempt
                            /\ loop.patches # <<>>

\* the Fixer is called only for an attempt whose build has failed; a build
\* starts only with no patch pending; a turn of the patch loop takes the
\* first pending patch and either writes it at its path or skips it
LoopStepsInOrder ==
    /\ loop'.fixerCalls > loop.fixerCalls =>
          /\ loop.pc = "fix"
          /\ loop'.fixerCalls = loop.builds
          /\ written' = {}
    /\ loop'.builds > loop.builds =>
          /\ loop.pc = "build"
          /\ loop.patches = <<>>
          /\ loop'.builds = loop.attempt
          /\ loop.fixerCalls = loop.attempt - 1
          /\ written' = {}
    /\ loop.pc = "apply" =>
          /\ loop'.patches = Tail(loop.patches)
          /\ \/ /\ written' = { join(loop.dir, relPath(Head(loop.patches))) }
                /\ loop'.skipped = loop.skipped
             \/ /\ written' = {}
                /\ loop'.skipped = loop.skipped + 1
          /\ loop'.pc = "build" <=> loop'.patches = <<>>
          /\ loop'.attempt = IF loop'.patches = <<>> THEN loop.attempt + 1 ELSE loop.attempt

C24_MissingKeyStopsAtStartup ==
    /\ [](~hasKey =>
            /\ pc \in {"startup", "exited"}
            /\ pc = "exited" => exitCode = 1
            /\ phases = <<>>
            /\ ~analysis.got /\ ~codeResult.got
            /\ errLog = {} /\ thrown = "none"
            /\ installs = <<>> /\ loop = NoLoop /\ buildOk = "none"
            /\ launch = NoLaunch /\ tests = NoTests /\ persist = NoPersist
            /\ written = {}
            /\ registry = SavedProjects)
    /\ [][~hasKey => (pc = "startup" /\ pc' = "exited" /\ written' = {})]_vars

C24_Witness ==
    /\ ~hasKey
    /\ hasPrompt
    /\ pc = "exited"
    /\ exitCode = 1

-----------------------------------------------------------------------------
(* sendMessage (client.mjs): one call of it, with its truncation retries *)

\* const MAX_TOKENS_CAP = 65536
MAX_TOKENS_CAP == 65536

\* for (let attempt = 0; attempt < 3; attempt++)
MaxCalls == 3

Min(a, b) == IF a <= b THEN a ELSE b

\* the sendMessage calls of the program: model, maxTokens, and whether an
\* onToken callback (streaming) is passed
CallSites ==
    { [model |-> "HAIKU", maxTokens |-> 512,   onToken |-> FALSE],   \* tester.mjs
      [model |-> "HAIKU", maxTokens |-> 1024,  onToken |-> FALSE],   \* analyzer.mjs
      [model |-> "OPUS",  maxTokens |-> 2048,  onToken |-> FALSE],   \* questioner.mjs
      [model |-> "HAIKU", maxTokens |-> 4096,  onToken |-> FALSE],   \* questioner.mjs
      [model |-> "OPUS",  maxTokens |-> 8192,  onToken |-> FALSE],   \* modifier.mjs
      [model |-> "OPUS",  maxTokens |-> 16384, onToken |-> FALSE],   \* codegen.mjs
      [model |-> "OPUS",  maxTokens |-> 16384, onToken |-> TRUE],    \* fixer.mjs; generateCode, static
      [model |-> "HAIKU", maxTokens |-> 16384, onToken |-> TRUE],
      [model |-> "OPUS",  maxTokens |-> 20480, onToken |-> TRUE],    \* generateCode
      [model |-> "HAIKU", maxTokens |-> 20480, onToken |-> TRUE],
      [model |-> "OPUS",  maxTokens |-> 20480, onToken |-> FALSE],   \* generateCode, fallback
      [model |-> "HAIKU", maxTokens |-> 20480, onToken |-> FALSE] }

\* callOnce: the finish reason it reports.  Streaming: the last chunk's
\* finish_reason, or 'stop' if none came; otherwise choice.finish_reason as
\* the provider gave it
FinishReasons(onToken) ==
    IF onToken THEN {"stop", "length", "content_filter"}
    ELSE {"stop", "length", "content_filter", "null"}

InitSend ==
    /\ RunOff
    /\ CliOff
    /\ json = NoJSON
    /\ AuxOff
    /\ \E c \in CallSites :
         send = [NoSend EXCEPT !.pc = "call", !.model = c.model,
                               !.maxTokens = c.maxTokens, !.onToken = c.onToken,
                               !.tokens = c.maxTokens]

\* variant: the doubled budget is capped at 16384
NextTokens_LowCap(tokens) == Min(tokens * 2, 16384)

\* tokens = Math.min(tokens * 2, MAX_TOKENS_CAP)
NextTokens(tokens) == Min(tokens * 2, MAX_TOKENS_CAP)

\* variant: the text of the first call is the one returned
ReturnedText_First(calls) == 1

\* `return text`: text is the constant of the current iteration, the text of
\* the call just made (texts are told apart by the number of their call)
ReturnedText(calls) == Len(calls)

\* one iteration of the loop: callOnce resolves, then lines 664-671
CallOnceReturns ==
    /\ send.pc = "call"
    /\ \E fr \in FinishReasons(send.onToken) :
         LET calls == Append(send.calls, [tokens |-> send.tokens, finishReason |-> fr]) IN
         IF fr # "length"
         THEN send' = [send EXCEPT !.calls = calls, !.pc = "returned",
                                   !.text = ReturnedText(calls)]
         ELSE IF send.attempt < MaxCalls - 1
         THEN send' = [send EXCEPT !.calls = calls, !.tokens = NextTokens(@),
                                   !.attempt = @ + 1]
         ELSE send' = [send EXCEPT !.calls = calls, !.tokens = NextTokens(@),
                                   !.pc = "returned", !.text = ReturnedText(calls)]
    /\ UNCHANGED <<runVars, json, cli, aux>>

\* callOnce rejects (timeout, network, provider error): sendMessage has no
\* try, the error leaves it
CallOnceThrows ==
    /\ send.pc = "call"
    /\ send' = [send EXCEPT !.pc = "threw"]
    /\ UNCHANGED <<runVars, json, cli, aux>>

NextSend ==
    \/ CallOnceReturns
    \/ CallOnceThrows

SpecSend == InitSend /\ [][NextSend]_vars

\* C3: one sendMessage makes at most three provider calls; every call but the
\* last reported 'length'; the text returned is the text of the last call
\* made; three truncated calls end with the third text returned, not with an
\* error.
C3_AtMostThreeCalls ==
    /\ Len(send.calls) <= 3
    /\ \A k \in 1..(Len(send.calls) - 1) : send.calls[k].finishReason = "length"
    /\ send.pc = "call" => Len(send.calls) = send.attempt /\ send.text = 0
    /\ send.pc = "returned" =>
          /\ Len(send.calls) >= 1
          /\ send.text = Len(send.calls)
    /\ (Len(send.calls) = 3 /\ send.calls[3].finishReason = "length") =>
          send.pc = "returned" /\ send.text = 3

C3_Witness ==
    /\ Len(send.calls) = 3
    /\ \A k \in 1..3 : send.calls[k].finishReason = "length"
    /\ send.pc = "returned"

\* C4: the budgets of the successive calls of one sendMessage never decrease:
\* the first is the budget passed in, each next one is the previous doubled,
\* capped at 65536.
C4_BudgetsNonDecreasing ==
    /\ Len(send.calls) >= 1 => send.calls[1].tokens = send.maxTokens
    /\ \A k \in 1..(Len(send.calls) - 1) :
          /\ send.calls[k + 1].tokens = Min(2 * send.calls[k].tokens, 65536)
          /\ send.calls[k + 1].tokens >= send.calls[k].tokens

C4_Witness ==
    /\ Len(send.calls) = 3
    /\ send.calls[1].tokens = 20480
    /\ send.calls[2].tokens = 40960
    /\ send.calls[3].tokens = 65536

-----------------------------------------------------------------------------
(* JSON texts.  A text is the sequence of its characters, each a one-       *)
(* character string; the byte-order mark, a code fence (three backticks)    *)
(* and the fence's "json" tag are single symbols.                           *)

Q     == "\""
BSL   == "\\"
BOM   == "BOM"
FENCE == "FENCE"
TAG   == "json"

\* the characters below 0x20 that occur in the texts
ControlChars == {"\n", "\r", "\t"}
\* what \s, trim() and trimEnd() take for white space
JsSpace == {" ", "\n", "\r", "\t", BOM}
\* what JSON.parse skips between tokens
JsonSpace == {" ", "\n", "\r", "\t"}
LineTerminators == {"\n", "\r"}
Digits == {"1", "2"}

\* number of leading characters of cs that are in S
RECURSIVE runOf(_, _)
runOf(cs, S) ==
    IF cs # <<>> /\ Head(cs) \in S THEN 1 + runOf(Tail(cs), S) ELSE 0

Drop(cs, n) == SubSeq(cs, n + 1, Len(cs))

RECURSIVE trimEnd(_)
trimEnd(cs) ==
    IF cs # <<>> /\ cs[Len(cs)] \in JsSpace THEN trimEnd(SubSeq(cs, 1, Len(cs) - 1)) ELSE cs

trim(cs) == trimEnd(Drop(cs, runOf(cs, JsSpace)))

(* JSON.parse: the tokens of the text, then the grammar.  The value of a    *)
(* valid text is given by its token sequence: white space is gone and a     *)
(* string token carries the decoded characters.                             *)

Tok(t, chars) == [t |-> t, s |-> chars]
BadTok == Tok("bad", <<>>)

Unescape(c) ==
    IF c = "n" THEN "\n" ELSE IF c = "t" THEN "\t" ELSE IF c = "r" THEN "\r" ELSE c

\* the string literal whose opening quote has been read: decoded characters
\* and what follows the closing quote
RECURSIVE scanString(_, _)
scanString(cs, acc) ==
    IF cs = <<>> THEN [ok |-> FALSE, s |-> acc, rest |-> <<>>]
    ELSE IF Head(cs) = Q THEN [ok |-> TRUE, s |-> acc, rest |-> Tail(cs)]
    ELSE IF Head(cs) = BSL
    THEN (IF Len(cs) >= 2 /\ cs[2] \in {Q, BSL, "/", "n", "t", "r"}
          THEN scanString(Drop(cs, 2), Append(acc, Unescape(cs[2])))
          ELSE [ok |-> FALSE, s |-> acc, rest |-> <<>>])
    ELSE IF Head(cs) \in ControlChars THEN [ok |-> FALSE, s |-> acc, rest |-> <<>>]
    ELSE scanString(Tail(cs), Append(acc, Head(cs)))

TrueLit == <<"t", "r", "u", "e">>

RECURSIVE Lex(_)
Lex(cs) ==
    IF cs = <<>> THEN <<>>
    ELSE LET c == Head(cs) IN
         IF c \in JsonSpace THEN Lex(Tail(cs))
         ELSE IF c \in {"{", "}", "[", "]", ",", ":"} THEN <<Tok(c, <<>>)>> \o Lex(Tail(cs))
         ELSE IF c = Q
         THEN (LET r == scanString(Tail(cs), <<>>) IN
               IF r.ok THEN <<Tok("str", r.s)>> \o Lex(r.rest) ELSE <<BadTok>>)
         ELSE IF c \in Digits
         THEN (LET n == runOf(cs, Digits) IN
               <<Tok("num", SubSeq(cs, 1, n))>> \o Lex(Drop(cs, n)))
         ELSE IF Len(cs) >= 4 /\ SubSeq(cs, 1, 4) = TrueLit
         THEN <<Tok("lit", TrueLit)>> \o Lex(Drop(cs, 4))
         ELSE <<BadTok>>

\* the index after the value / elements / members that start at toks[i], or 0
RECURSIVE valueEnd(_, _)
RECURSIVE elementsEnd(_, _)
RECURSIVE membersEnd(_, _)
valueEnd(toks, i) ==
    IF i > Len(toks) THEN 0
    ELSE IF toks[i].t \in {"str", "num", "lit"} THEN i + 1
    ELSE IF toks[i].t = "["
    THEN (IF i < Len(toks) /\ toks[i + 1].t = "]" THEN i + 2 ELSE elementsEnd(toks, i + 1))
    ELSE IF toks[i].t = "{"
    THEN (IF i < Len(toks) /\ toks[i + 1].t = "}" THEN i + 2 ELSE membersEnd(toks, i + 1))
    ELSE 0

elementsEnd(toks, i) ==
    LET j == valueEnd(toks, i) IN
    IF j = 0 \/ j > Len(toks) THEN 0
    ELSE IF toks[j].t = "]" THEN j + 1
    ELSE IF toks[j].t = "," THEN elementsEnd(toks, j + 1)
    ELSE 0

membersEnd(toks, i) ==
    IF i + 1 > Len(toks) \/ toks[i].t # "str" \/ toks[i + 1].t # ":" THEN 0
    ELSE LET j == valueEnd(toks, i + 2) IN
         IF j = 0 \/ j > Len(toks) THEN 0
         ELSE IF toks[j].t = "}" THEN j + 1
         ELSE IF toks[j].t = "," THEN membersEnd(toks, j + 1)
         ELSE 0

ValidTokens(toks) == toks # <<>> /\ valueEnd(toks, 1) = Len(toks) + 1

\* JSON.parse(text): the value, or a SyntaxError
JSONparse(cs) ==
    LET toks == Lex(cs) IN
    IF ValidTokens(toks) THEN [ok |-> TRUE, v |-> toks] ELSE [ok |-> FALSE, v |-> <<>>]

-----------------------------------------------------------------------------
(* extractJSON and its helpers (client.mjs) *)

\* const ESC = { '\n': '\\n', '\r': '\\r', '\t': '\\t', ... }
ESC(ch) ==
    IF ch = "\n" THEN <<BSL, "n">> ELSE IF ch = "\r" THEN <<BSL, "r">> ELSE <<BSL, "t">>

RECURSIVE sanitizeFrom(_, _, _)
sanitizeFrom(cs, inString, escape) ==
    IF cs = <<>> THEN <<>>
    ELSE LET ch == Head(cs) IN
         IF escape THEN <<ch>> \o sanitizeFrom(Tail(cs), inString, FALSE)
         ELSE IF ch = BSL /\ inString THEN <<ch>> \o sanitizeFrom(Tail(cs), inString, TRUE)
         ELSE IF ch = Q THEN <<ch>> \o sanitizeFrom(Tail(cs), ~inString, FALSE)
         ELSE IF inString /\ ch \in ControlChars
         THEN ESC(ch) \o sanitizeFrom(Tail(cs), inString, FALSE)
         ELSE <<ch>> \o sanitizeFrom(Tail(cs), inString, FALSE)

\* escape the raw control characters found inside string literals
sanitizeControlChars(str) == sanitizeFrom(str, FALSE, FALSE)

\* str.replace(/,(\s*[}\]])/g, '$1'): every comma that is followed by optional
\* white space and a closing bracket is dropped, wherever it stands
RECURSIVE removeTrailingCommas(_)
removeTrailingCommas(str) ==
    IF str = <<>> THEN <<>>
    ELSE LET rest == Tail(str)
             n    == runOf(rest, JsSpace) IN
         IF Head(str) = "," /\ n < Len(rest) /\ rest[n + 1] \in {"}", "]"}
         THEN SubSeq(rest, 1, n + 1) \o removeTrailingCommas(Drop(rest, n + 1))
         ELSE <<Head(str)>> \o removeTrailingCommas(rest)

\* the loop of repairTruncatedJSON from character i on; st holds its variables
RECURSIVE repairScan(_, _, _)
repairScan(str, i, st) ==
    IF i > Len(str) THEN st
    ELSE LET ch == str[i] IN
         IF st.escape THEN repairScan(str, i + 1, [st EXCEPT !.escape = FALSE])
         ELSE IF ch = BSL /\ st.inString
         THEN repairScan(str, i + 1, [st EXCEPT !.escape = TRUE])
         ELSE IF ch = Q
         THEN repairScan(str, i + 1,
                         [st EXCEPT !.inString = ~@,
                                    !.lastSafePos = IF st.inString THEN i ELSE @])
         ELSE IF st.inString THEN repairScan(str, i + 1, st)
         ELSE repairScan(str, i + 1,
                         [st EXCEPT
                            !.stack = IF ch = "{" THEN Append(@, "}")
                                      ELSE IF ch = "[" THEN Append(@, "]")
                                      ELSE IF ch \in {"}", "]"} /\ @ # <<>>
                                      THEN SubSeq(@, 1, Len(@) - 1)
                                      ELSE @,
                            !.lastSafePos = i])

Reverse(sq) == [i \in 1..Len(sq) |-> sq[Len(sq) + 1 - i]]

\* variant: the trailing comma is left where it is
repairTruncatedJSON_KeepComma(str) ==
    LET st == repairScan(str, 1, [stack |-> <<>>, inString |-> FALSE,
                                  escape |-> FALSE, lastSafePos |-> 0])
        cut == trimEnd(SubSeq(str, 1, st.lastSafePos))
    IN IF st.stack = <<>> /\ ~st.inString
       THEN [null |-> TRUE, s |-> <<>>]
       ELSE [null |-> FALSE, s |-> cut \o Reverse(st.stack)]

\* repairTruncatedJSON(str): null when nothing is open; else the text up to
\* the last safe position, without trailing white space and one trailing
\* comma, with the open brackets closed
repairTruncatedJSON(str) ==
    LET st == repairScan(str, 1, [stack |-> <<>>, inString |-> FALSE,
                                  escape |-> FALSE, lastSafePos |-> 0])
        cut == trimEnd(SubSeq(str, 1, st.lastSafePos))
        noComma == IF cut # <<>> /\ cut[Len(cut)] = ","
                   THEN SubSeq(cut, 1, Len(cut) - 1) ELSE cut
    IN IF st.stack = <<>> /\ ~st.inString
       THEN [null |-> TRUE, s |-> <<>>]
       ELSE [null |-> FALSE, s |-> noComma \o Reverse(st.stack)]

\* the least index of the set S, or 0 if there is none
FirstIndex(S) ==
    IF S = {} THEN 0 ELSE CHOOSE i \in S : \A j \in S : i <= j

\* .replace(/^```(?:json)?\s*/m, ''): the first fence that starts a line goes,
\* with its tag and the white space after it
stripOpenFence(cs) ==
    LET AtLineStart(i) == cs[i] = FENCE /\ (i = 1 \/ cs[i - 1] \in LineTerminators)
        i == FirstIndex({ k \in 1..Len(cs) : AtLineStart(k) }) IN
    IF i = 0 THEN cs
    ELSE LET after  == Drop(cs, i)
             noTag  == IF after # <<>> /\ Head(after) = TAG THEN Tail(after) ELSE after
         IN SubSeq(cs, 1, i - 1) \o Drop(noTag, runOf(noTag, JsSpace))

\* .replace(/\s*```\s*$/m, ''): the first fence that is followed, after
\* optional white space, by the end of a line goes, with the white space
\* before it and the white space after it up to that end of line
stripCloseFence(cs) ==
    LET EndsLine(i) ==
            /\ cs[i] = FENCE
            /\ LET n == runOf(Drop(cs, i), JsSpace) IN
               \/ i + n = Len(cs)
               \/ \E k \in 1..n : cs[i + k] \in LineTerminators
        i == FirstIndex({ k \in 1..Len(cs) : EndsLine(k) }) IN
    IF i = 0 THEN cs
    ELSE LET n     == runOf(Drop(cs, i), JsSpace)
             m     == runOf(Reverse(SubSeq(cs, 1, i - 1)), JsSpace)
             last  == IF i + n = Len(cs) THEN n
                      ELSE (CHOOSE k \in 1..n :
                              /\ cs[i + k] \in LineTerminators
                              /\ \A j \in (k + 1)..n : cs[i + j] \notin LineTerminators) - 1
         IN SubSeq(cs, 1, i - 1 - m) \o Drop(cs, i + last)

ParseError(kind) == [ok |-> FALSE, v |-> <<>>, err |-> kind]

\* extractJSON(text): the parsed value, or the Error thrown ("repair": invalid
\* and could not be repaired; "invalid": not valid JSON)
extractJSON(text) ==
    LET noBom    == IF text # <<>> /\ Head(text) = BOM THEN Tail(text) ELSE text
        unfenced == trim(stripCloseFence(stripOpenFence(noBom)))
        IsOpen(i) == unfenced[i] \in {"{", "["}
        start    == FirstIndex({ k \in 1..Len(unfenced) : IsOpen(k) })
        sliced   == IF start > 1 THEN Drop(unfenced, start - 1) ELSE unfenced
        cleaned  == removeTrailingCommas(sanitizeControlChars(sliced))
        first    == JSONparse(cleaned)
    IN IF first.ok THEN [ok |-> TRUE, v |-> first.v, err |-> "none"]
       ELSE LET repaired == repairTruncatedJSON(cleaned) IN
            IF ~repaired.null /\ repaired.s # <<>>
            THEN (LET second == JSONparse(repaired.s) IN
                  IF second.ok THEN [ok |-> TRUE, v |-> second.v, err |-> "none"]
                  ELSE ParseError("repair"))
            ELSE ParseError("invalid")

-----------------------------------------------------------------------------
(* extractJSON applied to a valid document that the LLM answer wraps, or    *)
(* that the token ceiling cut                                               *)

StrLit(chars) == <<Q>> \o chars \o <<Q>>

\* scalar values, as written in a document: numbers, true, and strings, one
\* with an escaped quote and some with a comma before a closing bracket
Scalars ==
    { <<"1">>, <<"1", "2">>, TrueLit,
      StrLit(<<"a">>), StrLit(<<",", "}">>), StrLit(<<"a", ",", " ", "]">>),
      StrLit(<<BSL, Q, "a">>) }

Obj1(v)     == <<"{">> \o StrLit(<<"a">>) \o <<":">> \o v \o <<"}">>
Obj2(v, w)  == <<"{">> \o StrLit(<<"a">>) \o <<":">> \o v \o <<",">>
                       \o StrLit(<<"b">>) \o <<":">> \o w \o <<"}">>
Arr1(v)     == <<"[">> \o v \o <<"]">>
Arr2(v, w)  == <<"[">> \o v \o <<",">> \o w \o <<"]">>
\* the layout of JSON.stringify(value, null, 1) for an object of one member
Pretty1(v)  == <<"{", "\n", " ">> \o StrLit(<<"a">>) \o <<":", " ">> \o v \o <<"\n", "}">>

\* valid JSON object and array documents
Docs ==
    { <<"{", "}">>, <<"[", "]">> }
    \cup { Obj1(v) : v \in Scalars } \cup { Arr1(v) : v \in Scalars }
    \cup { Pretty1(v) : v \in Scalars }
    \cup { Obj2(v, w) : v \in Scalars, w \in Scalars }
    \cup { Arr2(v, w) : v \in Scalars, w \in Scalars }
    \cup { Obj1(Arr1(v)) : v \in Scalars } \cup { Arr1(Obj1(v)) : v \in Scalars }
    \cup { Obj2(Obj1(v), <<"1">>) : v \in Scalars }

Prose == <<"o", "k", ":", "\n">>

\* how an LLM answer carries a document
Wrappers == {"plain", "bom", "fence", "barefence", "prose", "prosefence"}

Wrap(how, doc) ==
    IF how = "bom" THEN <<BOM>> \o doc
    ELSE IF how = "fence" THEN <<FENCE, TAG, "\n">> \o doc \o <<"\n", FENCE>>
    ELSE IF how = "barefence" THEN <<FENCE, "\n">> \o doc \o <<"\n", FENCE, "\n">>
    ELSE IF how = "prose" THEN Prose \o doc
    ELSE IF how = "prosefence" THEN Prose \o <<FENCE, TAG, "\n">> \o doc \o <<"\n", FENCE>>
    ELSE doc

InitJSON ==
    /\ RunOff
    /\ CliOff
    /\ send = NoSend
    /\ AuxOff
    /\ \E d \in Docs : json = [NoJSON EXCEPT !.pc = "doc", !.doc = d]

\* the answer carries the whole document
WrapDocument ==
    /\ json.pc = "doc"
    /\ \E how \in Wrappers :
         json' = [json EXCEPT !.pc = "text", !.how = how, !.text = Wrap(how, json.doc)]
    /\ UNCHANGED <<runVars, send, cli, aux>>

\* the answer is the document cut after k characters
TruncateDocument ==
    /\ json.pc = "doc"
    /\ \E k \in 0..(Len(json.doc) - 1) :
         json' = [json EXCEPT !.pc = "text", !.how = "cut", !.text = SubSeq(json.doc, 1, k)]
    /\ UNCHANGED <<runVars, send, cli, aux>>

ExtractJSON ==
    /\ json.pc = "text"
    /\ json' = [json EXCEPT !.pc = "done", !.out = extractJSON(json.text)]
    /\ UNCHANGED <<runVars, send, cli, aux>>

NextJSON ==
    \/ WrapDocument
    \/ TruncateDocument
    \/ ExtractJSON

SpecJSON == InitJSON /\ [][NextJSON]_vars

\* the shape of a text, read character by character: whether it ends inside
\* a string literal, the closers of the brackets still open, whether every
\* closer met the bracket it closes, and whether a comma stands right before
\* a closer or the end
RECURSIVE TextShape(_, _, _)
TextShape(text, i, sh) ==
    IF i > Len(text) THEN [sh EXCEPT !.dangling = @ \/ sh.comma]
    ELSE LET ch == text[i] IN
         IF sh.inString
         THEN (IF sh.escape THEN TextShape(text, i + 1, [sh EXCEPT !.escape = FALSE])
               ELSE IF ch = BSL THEN TextShape(text, i + 1, [sh EXCEPT !.escape = TRUE])
               ELSE IF ch = Q THEN TextShape(text, i + 1, [sh EXCEPT !.inString = FALSE])
               ELSE TextShape(text, i + 1, sh))
         ELSE IF ch = Q
         THEN TextShape(text, i + 1, [sh EXCEPT !.inString = TRUE, !.comma = FALSE])
         ELSE IF ch \in {"{", "["}
         THEN TextShape(text, i + 1,
                        [sh EXCEPT !.open = Append(@, IF ch = "{" THEN "}" ELSE "]"),
                                   !.comma = FALSE])
         ELSE IF ch \in {"}", "]"}
         THEN TextShape(text, i + 1,
                        [sh EXCEPT !.matched = @ /\ sh.open # <<>> /\ sh.open[Len(sh.open)] = ch,
                                   !.open = IF @ = <<>> THEN @ ELSE SubSeq(@, 1, Len(@) - 1),
                                   !.dangling = @ \/ sh.comma,
                                   !.comma = FALSE])
         ELSE IF ch = "," THEN TextShape(text, i + 1, [sh EXCEPT !.comma = TRUE])
         ELSE IF ch \in JsSpace THEN TextShape(text, i + 1, sh)
         ELSE TextShape(text, i + 1, [sh EXCEPT !.comma = FALSE])

ShapeOf(text) ==
    TextShape(text, 1, [inString |-> FALSE, escape |-> FALSE, open |-> <<>>,
                        matched |-> TRUE, comma |-> FALSE, dangling |-> FALSE])

\* C35: for a valid document cut at any point, repairTruncatedJSON gives null
\* exactly when the text has no open bracket and no open string literal;
\* otherwise a text with no open string literal, no comma left before a
\* closer or the end, and every bracket closed by its own closer, the
\* innermost first.
C35_RepairedShape ==
    json.how = "cut" =>
        LET r == repairTruncatedJSON(json.text)
            t == ShapeOf(json.text)
        IN  /\ r.null <=> (t.open = <<>> /\ ~t.inString)
            /\ ~r.null =>
                  LET sh == ShapeOf(r.s)
                  IN  /\ ~sh.inString
                      /\ ~sh.dangling
                      /\ sh.matched
                      /\ sh.open = <<>>

\* a document cut inside the string that follows a comma: the repair drops
\* the open string and the comma, closes the bracket, and the result parses
C35_Witness ==
    /\ json.pc = "done"
    /\ json.how = "cut"
    /\ ShapeOf(json.text).inString
    /\ \E i \in 1..Len(json.text) :
          /\ json.text[i] = ","
          /\ i < Len(json.text)
          /\ json.text[i + 1] = Q
          /\ \A j \in (i + 2)..Len(json.text) : json.text[j] # Q
    /\ ~repairTruncatedJSON(json.text).null
    /\ json.out.ok

\* what the message of the Error of extractJSON is made of (lines 802-813)
errorMessage(err) ==
    IF err = "repair" THEN {"original error", "response length", "tip"}
    ELSE IF err = "invalid" THEN {"original error", "first 300 chars"}
    ELSE {}

\* C32 (as claimed): when the first parse fails and the parse of the repaired
\* text fails too, the message of the error has the first 300 characters of
\* the response and the original parse error.
C32_RepairFailureDiagnostic ==
    (json.pc = "done" /\ json.out.err = "repair") =>
        {"original error", "first 300 chars"} \subseteq errorMessage(json.out.err)

\* the open brackets of a token sequence, innermost last, as their closers
RECURSIVE OpenClosers(_, _)
OpenClosers(toks, stack) ==
    IF toks = <<>> THEN stack
    ELSE LET t == Head(toks).t IN
         OpenClosers(Tail(toks),
                     IF t = "{" THEN Append(stack, Tok("}", <<>>))
                     ELSE IF t = "[" THEN Append(stack, Tok("]", <<>>))
                     ELSE IF t \in {"}", "]"} /\ stack # <<>>
                     THEN SubSeq(stack, 1, Len(stack) - 1)
                     ELSE stack)

\* valid JSON is achievable from the text by closing its open brackets
Closable(text) ==
    LET toks == Lex(text) IN
    /\ toks # <<>>
    /\ toks[Len(toks)] # BadTok
    /\ ValidTokens(toks \o Reverse(OpenClosers(toks, <<>>)))

RECURSIVE StripClosers(_)
StripClosers(toks) ==
    IF toks # <<>> /\ toks[Len(toks)].t \in {"}", "]"}
    THEN StripClosers(SubSeq(toks, 1, Len(toks) - 1)) ELSE toks

\* value r has the keys and values of value o, in order, up to some point,
\* and nothing else
PrefixConsistent(r, o) ==
    LET r0 == StripClosers(r) IN
    Len(r0) <= Len(o) /\ SubSeq(o, 1, Len(r0)) = r0

\* C5 (as claimed): for a valid document cut at any point, whenever closing
\* the open brackets can give valid JSON, extractJSON returns a value, and
\* that value is prefix-consistent with the document's.
C5_RepairPrefixConsistent ==
    (json.pc = "done" /\ json.how = "cut" /\ Closable(json.text)) =>
        /\ json.out.ok
        /\ PrefixConsistent(json.out.v, JSONparse(json.doc).v)

\* C6 (as claimed): for a valid object or array document, bare or behind a
\* byte-order mark, inside a code fence or after prose, extractJSON returns
\* exactly the value JSON.parse gives for the document.
C6_ExtractEqualsParse ==
    (json.pc = "done" /\ json.how \in Wrappers) =>
        /\ json.out.ok
        /\ json.out.v = JSONparse(json.doc).v
-----------------------------------------------------------------------------
(* The project registry (src/src/projects/registry.mjs).  `registry` is    *)
(* what load() returns: the projects array of the file, [] when there is   *)
(* no file.  SpecRegistry is the registry under the registerProject calls  *)
(* of successive build runs, with listProjects and findProject in between. *)

MaxRegistrations == 3

Names == {"shop", "blog"}

\* the entries the runs register
Entries == [name : Names, dir : {"/srv/a", "/srv/b"}, type : {"api", "fullstack"}]

\* registry.mjs 36-39: the first entry of that name, or null
findProject(projects, name) ==
    LET hits == SelectSeq(projects, LAMBDA p : p.name = name)
    IN  IF hits = <<>> THEN NoEntry ELSE Head(hits)

InitRegistry ==
    /\ RunOff
    /\ send = NoSend
    /\ json = NoJSON
    /\ AuxOff
    /\ CliOff

\* registerProject(e) of one run: save() throws, and the file is as before,
\* or the new array is written
RegistryRegister ==
    /\ Len(regCall.log) < MaxRegistrations
    /\ \E e \in Entries, saved \in BOOLEAN :
          IF saved
          THEN /\ registry' = registerProject(registry, e)
               /\ regCall' = [op |-> "register", arg |-> e, out |-> <<>>,
                              log |-> Append(regCall.log, e)]
          ELSE /\ registry' = registry
               /\ regCall' = [regCall EXCEPT !.op = "saveFailed", !.arg = e, !.out = <<>>]
    /\ UNCHANGED <<runVars, send, json, aux, disk, now, cmd>>

\* listProjects(): the array as loaded
RegistryList ==
    /\ regCall' = [regCall EXCEPT !.op = "list", !.arg = NoEntry, !.out = registry]
    /\ UNCHANGED <<runVars, send, json, aux, registry, disk, now, cmd>>

\* findProject(name)
RegistryFind ==
    /\ \E n \in Names \cup {"nope"} :
          regCall' = [regCall EXCEPT !.op = "find", !.arg = [NoEntry EXCEPT !.name = n],
                                     !.out = <<findProject(registry, n)>>]
    /\ UNCHANGED <<runVars, send, json, aux, registry, disk, now, cmd>>

NextRegistry ==
    \/ RegistryRegister
    \/ RegistryList
    \/ RegistryFind

SpecRegistry == InitRegistry /\ [][NextRegistry]_vars

\* the entries of that name in the registry
EntriesNamed(name) == { i \in 1..Len(registry) : registry[i].name = name }

\* C15: the registry never holds two entries of one name, and right after
\* registerProject(e) the one entry under e.name is e itself, field by field.
C15_OneEntryPerName ==
    /\ \A i, j \in 1..Len(registry) : registry[i].name = registry[j].name => i = j
    /\ regCall.op = "register" =>
          /\ Cardinality(EntriesNamed(regCall.arg.name)) = 1
          /\ \A i \in EntriesNamed(regCall.arg.name) :
                /\ registry[i].dir = regCall.arg.dir
                /\ registry[i].type = regCall.arg.type
          /\ findProject(registry, regCall.arg.name) = regCall.arg

\* a name registered before with another directory and another type has
\* just been registered again
C15_Witness ==
    /\ regCall.op = "register"
    /\ \E i \in 1..(Len(regCall.log) - 1) :
          /\ regCall.log[i].name = regCall.arg.name
          /\ regCall.log[i].dir # regCall.arg.dir
          /\ regCall.log[i].type # regCall.arg.type

\* the place in the log of the last registration of that name (0: never)
LastRegistered(name) ==
    LET S == { i \in 1..Len(regCall.log) : regCall.log[i].name = name }
    IN  IF S = {} THEN 0 ELSE CHOOSE i \in S : \A j \in S : j <= i

\* the list holds, for every name ever registered, the entry last registered
\* under it, a later registration before an earlier one
MostRecentFirst ==
    /\ \A e \in Range(regCall.log) : EntriesNamed(e.name) # {}
    /\ \A i \in 1..Len(registry) :
          /\ LastRegistered(registry[i].name) > 0
          /\ registry[i] = regCall.log[LastRegistered(registry[i].name)]
          /\ \A j \in 1..Len(registry) :
                i < j => LastRegistered(registry[i].name) > LastRegistered(registry[j].name)

\* a registration puts its entry first and keeps the entries of other names
\* as they were, in the order they had
RegisterKeepsOthers ==
    regCall'.log # regCall.log =>
        /\ Head(registry') = regCall'.arg
        /\ Tail(registry') = SelectSeq(registry, LAMBDA p : p.name # regCall'.arg.name)

-----------------------------------------------------------------------------
(* The commands: modify (src/index.php 348-610, modify.mjs), open          *)
(* (src/src/commands/open.mjs) and list (src/src/commands/list.mjs), run   *)
(* one after the other on a registry and on the project directory          *)
(* /srv/shop.  No other directory exists.                                   *)

MaxModifies == 2

\* line 579: history.slice(0, 10)
HistoryLimit == 10

\* the run variables but `written`
runRest == <<pc, projectType, hasKey, hasPrompt, analysis, codeResult, phases,
             errLog, thrown, exitCode, installs, loop, buildOk, launch, tests, persist>>

\* the <name> argument: registered names, an unknown name, a directory
Args == {"shop", "gone", "nope", "/srv/shop"}

ShopEntry == [name |-> "shop", dir |-> "/srv/shop", type |-> "api"]
GoneEntry == [name |-> "gone", dir |-> "/srv/gone", type |-> "api"]

\* a directory string as path segments
dirPath(dir) == IF dir = "/srv/shop" THEN <<"srv", "shop">> ELSE <<"srv", "gone">>

existsSync(path) == path = "/srv/shop" /\ disk.dir

\* config.mjs 27-34: fs.access of <dir>/config.vbs
hasConfigVbs(dir) == existsSync(dir) /\ disk.file # "none"

\* config.mjs 19-22: readFile and JSON.parse; raises unless this holds
canReadConfigVbs(dir) == existsSync(dir) /\ disk.file = "valid"

\* the configs run() writes for an api, a static frontend, a fullstack project
Configs ==
    { [NoConfig EXCEPT !.name = "shop", !.type = "api", !.backendPm2 = "shop-api"],
      [NoConfig EXCEPT !.name = "shop", !.type = "frontend", !.frontend = TRUE],
      [NoConfig EXCEPT !.name = "shop", !.type = "fullstack", !.backendPm2 = "shop-api",
                       !.frontend = TRUE, !.frontendPm2 = "shop-front"] }

\* lines 571-576: the entry of one modify
HistoryEntry(date, files) ==
    [date |-> date, request |-> "req", files |-> files, summary |-> "sum"]

\* the history after HistoryLimit modifies, the newest first
FullHistory ==
    [i \in 1..HistoryLimit |-> HistoryEntry(HistoryLimit + 1 - i, << <<"src", "a.js">> >>)]

\* paths of modified files: one with the backend/ prefix, one without a prefix
ModPaths == { <<"backend", "src", "a.js">>, <<"package.json">> }

\* what generateModification returns: extractJSON of the answer, unvalidated
Results ==
    [files : SeqsOf(ModPaths, 0, MaxFiles), rebuildRequired : BOOLEAN,
     restartRequired : {"true", "false", "missing"}]

InitCommands ==
    /\ RunOff
    /\ send = NoSend
    /\ json = NoJSON
    /\ AuxOff
    /\ registry \in {<<>>, <<GoneEntry, ShopEntry>>}
    /\ regCall = NoRegCall
    /\ disk \in {NoDisk, [NoDisk EXCEPT !.dir = TRUE],
                 [NoDisk EXCEPT !.dir = TRUE, !.file = "invalid"]}
               \cup { [dir |-> TRUE, file |-> "valid",
                       config |-> [c EXCEPT !.modificationHistory = h,
                                            !.updatedAt = Len(h)]]
                        : c \in Configs, h \in {<<>>, FullHistory} }
    /\ now = Len(disk.config.modificationHistory) + 1
    /\ cmd = NoCmd

\* bin/vbs.mjs 98-128: the action of a subcommand starts
StartCommand ==
    /\ pc = "off"
    /\ cmd.pc \in {"idle", "exited"}
    /\ \E op \in {"modify", "open", "list"}, name \in Args :
          /\ op = "modify" => cmd.modifies < MaxModifies
          /\ op = "list" => name = "nope"
          /\ cmd' = [NoCmd EXCEPT !.op = op,
                                  !.name = IF op = "list" THEN "" ELSE name,
                                  !.pc = IF op = "list" THEN "list" ELSE "find",
                                  !.modifies = IF op = "modify" THEN cmd.modifies + 1
                                               ELSE cmd.modifies]
    /\ written' = {}
    /\ UNCHANGED <<runRest, send, json, aux, registry, regCall, disk, now>>

\* variant: the not-found box is followed by a plain return
NotFound_Return(c) ==
    [c EXCEPT !.pc = "exited", !.message = "notfound", !.exit = 0]

\* lines 383-393, open.mjs 32-41: the not-found box, process.exit(1)
NotFound(c) ==
    [c EXCEPT !.pc = "exited", !.message = "notfound", !.exit = 1]

\* process.exit(1) after a message
Fail(c, message) ==
    [c EXCEPT !.pc = "exited", !.message = message, !.exit = 1]

\* an error leaves the action: program.parse() has no handler for it, node
\* prints the error and exits with 1
Crash(c) ==
    [c EXCEPT !.pc = "exited", !.message = "error", !.thrown = TRUE, !.exit = 1]

\* lines 374-381, open.mjs 20-30: findProject, else the <name> taken as a
\* directory with a config.vbs; readConfigVbs is outside any try
FindEntry(c, next) ==
    IF findProject(registry, c.name) # NoEntry
    THEN [c EXCEPT !.entry = findProject(registry, c.name), !.via = "registry",
                   !.pc = next]
    ELSE IF existsSync(c.name) /\ hasConfigVbs(c.name)
    THEN (IF canReadConfigVbs(c.name)
          THEN [c EXCEPT !.entry = [name |-> disk.config.name, dir |-> c.name,
                                    type |-> disk.config.type],
                         !.via = "dir", !.pc = next]
          ELSE Crash(c))
    ELSE NotFound(c)

\* lines 374-393
ModifyFind ==
    /\ cmd.op = "modify"
    /\ cmd.pc = "find"
    /\ cmd' = FindEntry(cmd, "dir")
    /\ written' = {}
    /\ UNCHANGED <<runRest, send, json, aux, registry, regCall, disk, now>>

\* lines 395-415: the directory must exist and its config.vbs must parse
ModifyReadConfig ==
    /\ cmd.op = "modify"
    /\ cmd.pc = "dir"
    /\ cmd' = IF ~existsSync(cmd.entry.dir) THEN Fail(cmd, "dirmissing")
              ELSE IF canReadConfigVbs(cmd.entry.dir)
              THEN [cmd EXCEPT !.configVbs = disk.config, !.pc = "generate"]
              ELSE Fail(cmd, "badconfig")
    /\ written' = {}
    /\ UNCHANGED <<runRest, send, json, aux, registry, regCall, disk, now>>

\* lines 417-447: the request, then generateModification; its error, or an
\* answer without files, is rethrown
ModifyGenerate ==
    /\ cmd.op = "modify"
    /\ cmd.pc = "generate"
    /\ \/ cmd' = [Crash(cmd) EXCEPT !.gateway = @ + 1]
       \/ \E r \in Results :
             cmd' = [cmd EXCEPT !.result = r, !.gateway = @ + 1, !.pc = "confirm"]
    /\ written' = {}
    /\ UNCHANGED <<runRest, send, json, aux, registry, regCall, disk, now>>

\* variant: the warning is logged, but the return is missing
ModifyConfirm_NoReturn ==
    /\ cmd.op = "modify"
    /\ cmd.pc = "confirm"
    /\ \E proceed \in BOOLEAN :
          cmd' = IF proceed THEN [cmd EXCEPT !.pc = "write"]
                 ELSE [cmd EXCEPT !.pc = "write", !.message = "cancelled"]
    /\ written' = {}
    /\ UNCHANGED <<runRest, send, json, aux, registry, regCall, disk, now>>

\* lines 449-471: the changes are shown; without the user's yes, return
ModifyConfirm ==
    /\ cmd.op = "modify"
    /\ cmd.pc = "confirm"
    /\ \E proceed \in BOOLEAN :
          cmd' = IF proceed THEN [cmd EXCEPT !.pc = "write"]
                 ELSE [cmd EXCEPT !.pc = "exited", !.message = "cancelled", !.exit = 0]
    /\ written' = {}
    /\ UNCHANGED <<runRest, send, json, aux, registry, regCall, disk, now>>

\* line 511: result.files.some(f => f.path.endsWith('package.json'))
pkgChanged(files) ==
    \E i \in 1..Len(files) : files[i][Len(files[i])] = "package.json"

\* line 535: existsSync(join(entry.dir, 'frontend')); run() makes that
\* directory for a fullstack project only (index.mjs 541-542), the files of a
\* frontend project are in entry.dir itself
frontDirExists(configVbs) == disk.dir /\ configVbs.type = "fullstack"

\* lines 533-545: the frontend build is run when the Modifier asks for it, the
\* config has a frontend and <dir>/frontend exists
rebuilds(res, configVbs) ==
    res.rebuildRequired /\ configVbs.frontend /\ frontDirExists(configVbs)

\* lines 476-545: every file is written at join(entry.dir, file.path), a
\* failed write is reported and skipped; then npm install if a package.json
\* was among them, and the frontend build if asked for
ModifyWrite ==
    /\ cmd.op = "modify"
    /\ cmd.pc = "write"
    /\ \E done \in SUBSET (1..Len(cmd.result.files)) :
          written' = { join(dirPath(cmd.entry.dir), cmd.result.files[i]) : i \in done }
    /\ cmd' = [cmd EXCEPT !.pc = "restart",
                          !.installed = pkgChanged(cmd.result.files),
                          !.rebuilt = rebuilds(cmd.result, cmd.configVbs)]
    /\ UNCHANGED <<runRest, send, json, aux, registry, regCall, disk, now>>

\* C27 (as claimed, for the Modifier): in a project that is a backend only,
\* whose directory is the backend, a modified file given as backend/<path> is
\* written where <path> is written.
C27_PrefixedSameFile ==
    (cmd.op = "modify" /\ cmd.pc = "restart" /\ cmd.configVbs.type = "api") =>
        written \subseteq { join(dirPath(cmd.entry.dir), StripPrefix(cmd.result.files[i], "backend")) :
                               i \in 1..Len(cmd.result.files) }

\* C39: up to the confirmation modify writes nothing and changes neither
\* the config nor the registry; when the user declines, the command is over:
\* no file is written, no install, build or restart is run, and the config
\* (history and updatedAt included) and the registry are what they were.
C39_DeclineChangesNothing ==
    /\ [][(cmd.op = "modify" /\ cmd.pc \in {"find", "dir", "generate", "confirm"}) =>
            /\ written' = {}
            /\ disk' = disk
            /\ registry' = registry]_vars
    /\ [](cmd.message = "cancelled" =>
            /\ cmd.pc = "exited"
            /\ written = {}
            /\ ~cmd.installed /\ ~cmd.rebuilt
            /\ cmd.restarted = <<>>
            /\ ~cmd.updated)
    /\ [][cmd.message = "cancelled" =>
            /\ disk' = disk
            /\ registry' = registry
            /\ written' = {}]_vars

\* the Modifier proposed a change with a package.json, a rebuild and a
\* restart for a fullstack project, and the user declined
C39_Witness ==
    /\ cmd.op = "modify"
    /\ cmd.message = "cancelled"
    /\ cmd.configVbs.type = "fullstack"
    /\ pkgChanged(cmd.result.files)
    /\ cmd.result.rebuildRequired
    /\ cmd.result.restartRequired = "true"
    /\ disk.config = cmd.configVbs

\* C38 (as claimed): when the Modifier asks for a rebuild and the config has
\* a frontend, the frontend build has been run by the time the processes are
\* restarted, for a frontend project as for a fullstack project; and the
\* processes are restarted unless the Modifier says that none is needed.
C38_RebuildThenRestart ==
    /\ (cmd.op = "modify" /\ cmd.pc \in {"restart", "update"}
          /\ cmd.result.rebuildRequired /\ cmd.configVbs.frontend) => cmd.rebuilt
    /\ (cmd.op = "modify" /\ cmd.pc = "update" /\ cmd.result.restartRequired # "false")
          => cmd.restarted # <<>>

\* lines 551-554: the pm2 names of the config, else the <name> argument
pm2Names(configVbs, name) ==
    LET back  == IF configVbs.backendPm2 # "" THEN <<configVbs.backendPm2>> ELSE <<>>
        front == IF configVbs.frontend /\ configVbs.frontendPm2 # ""
                 THEN <<configVbs.frontendPm2>> ELSE <<>>
    IN  IF back \o front = <<>> THEN <<name>> ELSE back \o front

\* lines 548-566: pm2 restart of every name unless restartRequired is false
ModifyRestart ==
    /\ cmd.op = "modify"
    /\ cmd.pc = "restart"
    /\ cmd' = [cmd EXCEPT !.pc = "update",
                          !.restarted = IF cmd.result.restartRequired # "false"
                                        THEN pm2Names(cmd.configVbs, cmd.name)
                                        ELSE <<>>]
    /\ written' = {}
    /\ UNCHANGED <<runRest, send, json, aux, registry, regCall, disk, now>>

\* lines 570-580: the new entry first, the first ten kept
NewHistory(history, entry) ==
    SubSeq(<<entry>> \o history, 1, Min(Len(history) + 1, HistoryLimit))

\* variant: the file is rewritten from the patch alone
updateConfigVbs_PatchOnly(existing, patch, t) ==
    [f \in DOMAIN existing |->
        IF f = "updatedAt" THEN t
        ELSE IF f \in DOMAIN patch THEN patch[f]
        ELSE NoConfig[f]]

\* config.mjs 39-44: { ...existing, ...patch, updatedAt: new Date() }, for a
\* patch of fields the config has
updateConfigVbs(existing, patch, t) ==
    [f \in DOMAIN existing |->
        IF f = "updatedAt" THEN t
        ELSE IF f \in DOMAIN patch THEN patch[f]
        ELSE existing[f]]

\* lines 569-610: the history entry, updateConfigVbs inside try { } catch {},
\* the box "Modification applied!", return
ModifyUpdateConfig ==
    /\ cmd.op = "modify"
    /\ cmd.pc = "update"
    /\ now' = now + 1
    /\ \E ok \in BOOLEAN :
          /\ disk' = IF ok
                     THEN [disk EXCEPT !.config = updateConfigVbs(disk.config,
                             [modificationHistory |->
                                 NewHistory(cmd.configVbs.modificationHistory,
                                            HistoryEntry(now, cmd.result.files))],
                             now)]
                     ELSE disk
          /\ written' = IF ok THEN { join(dirPath(cmd.entry.dir), <<"config.vbs">>) } ELSE {}
          /\ cmd' = [cmd EXCEPT !.pc = "exited", !.message = "applied", !.exit = 0,
                                !.updated = ok]
    /\ UNCHANGED <<runRest, send, json, aux, registry, regCall>>

\* open.mjs 20-41
OpenFind ==
    /\ cmd.op = "open"
    /\ cmd.pc = "find"
    /\ cmd' = FindEntry(cmd, "show")
    /\ written' = {}
    /\ UNCHANGED <<runRest, send, json, aux, registry, regCall, disk, now>>

\* open.mjs 43-150: config.vbs read inside try, the info panel, return
OpenShow ==
    /\ cmd.op = "open"
    /\ cmd.pc = "show"
    /\ cmd' = [cmd EXCEPT !.pc = "exited", !.message = "info", !.exit = 0,
                          !.configVbs = IF canReadConfigVbs(cmd.entry.dir)
                                        THEN disk.config ELSE NoConfig]
    /\ written' = {}
    /\ UNCHANGED <<runRest, send, json, aux, registry, regCall, disk, now>>

\* variant: list drops the entries whose directory is gone
RunList_Prune ==
    /\ cmd.op = "list"
    /\ cmd.pc = "list"
    /\ registry' = SelectSeq(registry, LAMBDA p : existsSync(p.dir))
    /\ cmd' = [cmd EXCEPT !.pc = "exited", !.out = registry', !.exit = 0,
                          !.message = IF registry' = <<>> THEN "empty" ELSE "table"]
    /\ written' = {}
    /\ UNCHANGED <<runRest, send, json, aux, regCall, disk, now>>

\* list.mjs 29-end: listProjects, the table or "No projects saved yet"
RunList ==
    /\ cmd.op = "list"
    /\ cmd.pc = "list"
    /\ cmd' = [cmd EXCEPT !.pc = "exited", !.out = registry, !.exit = 0,
                          !.message = IF registry = <<>> THEN "empty" ELSE "table"]
    /\ written' = {}
    /\ UNCHANGED <<runRest, send, json, aux, registry, regCall, disk, now>>

NextCommands ==
    \/ StartCommand
    \/ ModifyFind
    \/ ModifyReadConfig
    \/ ModifyGenerate
    \/ ModifyConfirm
    \/ ModifyWrite
    \/ ModifyRestart
    \/ ModifyUpdateConfig
    \/ OpenFind
    \/ OpenShow
    \/ RunList

SpecCommands == InitCommands /\ [][NextCommands]_vars

\* one invocation of vbs: a build run, or commands
InitCli == Init \/ InitCommands

NextCli == Next \/ NextCommands

SpecCli == InitCli /\ [][NextCli]_vars

-----------------------------------------------------------------------------
(* Properties of the commands and of the registry file *)

\* the registry file changes only by the registerProject call of a build run
\* that has started its persist phase with no error in flight, and what it
\* gets is that run's entry
RegistryWrittenByPersistOnly ==
    registry' # registry =>
        /\ pc = "register"
        /\ 8 \in Range(phases)
        /\ thrown = "none"
        /\ exitCode = -1
        /\ cmd = NoCmd
        /\ persist'.registered
        /\ Head(registry').name = projectName

\* C17: the registry gains or changes an entry only when a build run
\* reaches its persist phase; a run that fails before, and every modify,
\* open or list command, leaves it as it was.
C17_RegistryOnlyAtPersist ==
    /\ [][RegistryWrittenByPersistOnly]_vars
    /\ [](pc # "off" => (persist.registered \/ registry = SavedProjects))
    /\ [](cmd.op # "none" => registry \in {<<>>, <<GoneEntry, ShopEntry>>})

\* a run has replaced the entry of its name; before it, the file held the
\* old one
C17_Witness ==
    /\ pc = "exited"
    /\ persist.registered
    /\ registry # SavedProjects
    /\ Head(registry) = [name |-> projectName, dir |-> "/home/proj", type |-> "fullstack"]

\* the command has looked the name up
LookedUp == cmd.op \in {"modify", "open"} /\ cmd.pc # "find"

\* the not-found ending: the message, exit 1, nothing raised, no Gateway
\* call, no file written
NotFoundEnding ==
    /\ cmd.pc = "exited"
    /\ cmd.message = "notfound"
    /\ cmd.exit = 1
    /\ ~cmd.thrown
    /\ cmd.gateway = 0
    /\ written = {}

C19_FallbackAsIfRegistered ==
    (/\ cmd.op = "modify"
     /\ cmd.via = "dir"
     /\ cmd.pc = "update" \/ cmd.message = "applied"
     /\ cmd.result.restartRequired # "false")
    => cmd.restarted = pm2Names(cmd.configVbs, cmd.entry.name)

\* a step keeps every history entry, and a modify whose config update went
\* through adds one
HistoryGrows ==
    LET before == disk.config.modificationHistory
        after  == disk'.config.modificationHistory
    IN  /\ \A e \in Range(before) : e \in Range(after)
        /\ (cmd'.updated /\ ~cmd.updated) =>
              /\ Len(after) = Len(before) + 1
              /\ HistoryEntry(now, cmd.result.files) \in Range(after)

\* C20 (as claimed): the modification history only grows: a successful
\* modify adds one entry, and no entry is ever removed or altered.
C20_HistoryAppendOnly == [][HistoryGrows]_vars

\* the fields of a config that runModify does not patch
FrameFields == DOMAIN NoConfig \ {"modificationHistory", "updatedAt"}

\* the step that ends a modify with "Modification applied!"
ModifyApplied == cmd.pc = "update" /\ cmd'.message = "applied"

-----------------------------------------------------------------------------
(* The config.vbs of the persist phase (src/src/index.mjs 696-766) as a    *)
(* function of what the run has by then: the project type, analysis.isStatic, *)
(* the answers, and the endpoints the generated project lists.             *)

MaxEndpoints == 2

SecretKeys == AnswerKeys \ {"port"}

\* the answers: port is always set (lines 404-414); a value is "clear", the
\* text the user typed or the run generated
AnswerSets ==
    { a \in [AnswerKeys -> {"absent", "clear"}] : a["port"] = "clear" }

InitConfig ==
    /\ RunOff
    /\ CliOff
    /\ send = NoSend
    /\ json = NoJSON
    /\ \E t \in Types, st \in BOOLEAN, a \in AnswerSets, n \in 0..MaxEndpoints :
          cfgBuild = [NoCfgBuild EXCEPT !.pc = "persist", !.projectType = t,
                                        !.isStatic = st, !.userAnswers = a,
                                        !.allEndpoints = n]
    /\ gen = NoGen
    /\ genCalls = NoCalls
    /\ proxy = NoProxy
    /\ probe = NoProbe
    /\ suite = NoSuite
    /\ race = NoRace

\* lines 751-754: { ...userAnswers, database_password: ... ? '[set]' : undefined }
\* as JSON.stringify writes it (an undefined value is left out)
configAnswers(userAnswers) ==
    [k \in AnswerKeys |->
        IF k = "database_password"
        THEN (IF userAnswers[k] # "absent" THEN "[set]" ELSE "absent")
        ELSE userAnswers[k]]

\* lines 700-758: backendConfig and frontendConfig by project type, then
\* configVbs; allEndpoints is the number of entries of codeResult.allEndpoints
\* (0 also when the key is missing: `|| []`)
buildConfig(ptype, static, userAnswers, allEndpoints) ==
    [type        |-> ptype,
     isStatic    |-> static /\ ptype = "frontend",
     backend     |-> IF ptype \in {"api", "fullstack"} THEN "set" ELSE "null",
     frontend    |-> IF ptype \in {"frontend", "fullstack"} THEN "set" ELSE "null",
     frontendPm2 |-> IF ptype = "api" \/ (static /\ ptype = "frontend")
                     THEN "null" ELSE "set",
     endpoints   |-> allEndpoints,
     answers     |-> configAnswers(userAnswers)]

\* lines 696-766: the config is built and written; a failed write is
\* reported and the run goes on
PersistConfig ==
    /\ cfgBuild.pc = "persist"
    /\ \E ok \in BOOLEAN :
          cfgBuild' = [cfgBuild EXCEPT
                         !.pc = "done",
                         !.config = buildConfig(cfgBuild.projectType, cfgBuild.isStatic,
                                                cfgBuild.userAnswers, cfgBuild.allEndpoints),
                         !.written = ok]
    /\ UNCHANGED <<runVars, send, json, cli, gen, genCalls, proxy, probe, suite, race>>

NextConfig == PersistConfig

SpecConfig == InitConfig /\ [][NextConfig]_vars

\* C22 (as claimed): no secret of the answers is in the written config in
\* clear text.
C22_SecretsRedacted ==
    cfgBuild.written =>
        \A k \in SecretKeys : cfgBuild.config.answers[k] # "clear"

\* C23 (as claimed): the written config has the shape of its type: api has
\* a backend, no frontend and at least one endpoint; frontend has a frontend
\* and no backend; fullstack has both.
C23_ShapeByType ==
    cfgBuild.written =>
        /\ cfgBuild.config.type = "api" =>
              /\ cfgBuild.config.backend # "null"
              /\ cfgBuild.config.frontend = "null"
              /\ cfgBuild.config.endpoints > 0
        /\ cfgBuild.config.type = "frontend" =>
              /\ cfgBuild.config.backend = "null"
              /\ cfgBuild.config.frontend # "null"
        /\ cfgBuild.config.type = "fullstack" =>
              /\ cfgBuild.config.backend # "null"
              /\ cfgBuild.config.frontend # "null"

-----------------------------------------------------------------------------
(* Code generation for a fullstack project (generateFullstackParallel,     *)
(* codegen.mjs = src/unnamed/part_004 411-466) with what run() does with   *)
(* its result (src/src/index.mjs 507-520): two Gateway calls in flight at   *)
(* once, Promise.all, the merge, the file write.                            *)

\* paths a call may return: as asked for, or without the prefix
GenPaths == { <<"backend", "a.js">>, <<"frontend", "a.js">>, <<"a.js">> }

\* extractJSON of one answer, unvalidated: with files and pm2Name, without
\* pm2Name, or without files
Parts ==
    [files : SeqsOf(GenPaths, 0, MaxFiles), keys : {"full", "nopm2"}]
      \cup {[files |-> <<>>, keys |-> "nofiles"]}

InitGen ==
    /\ RunOff
    /\ CliOff
    /\ send = NoSend
    /\ json = NoJSON
    /\ cfgBuild = NoCfgBuild
    /\ genCalls = NoCalls
    /\ proxy = NoProxy
    /\ probe = NoProbe
    /\ suite = NoSuite
    /\ race = NoRace
    /\ gen = [NoGen EXCEPT !.pc = "calls", !.back = "running", !.front = "running"]

\* line 452: sendMessage(...).then(extractJSON) for the backend settles
BackendSettles ==
    /\ gen.pc \in {"calls", "rejected"}
    /\ gen.back = "running"
    /\ \/ gen' = [gen EXCEPT !.back = "failed", !.order = Append(@, "back")]
       \/ \E r \in Parts :
             gen' = [gen EXCEPT !.back = "done", !.backResult = r,
                                !.order = Append(@, "back")]
    /\ written' = {}
    /\ UNCHANGED <<runRest, send, json, cli, cfgBuild, genCalls, proxy, probe, suite, race>>

\* line 453: the same for the frontend
FrontendSettles ==
    /\ gen.pc \in {"calls", "rejected"}
    /\ gen.front = "running"
    /\ \/ gen' = [gen EXCEPT !.front = "failed", !.order = Append(@, "front")]
       \/ \E r \in Parts :
             gen' = [gen EXCEPT !.front = "done", !.frontResult = r,
                                !.order = Append(@, "front")]
    /\ written' = {}
    /\ UNCHANGED <<runRest, send, json, cli, cfgBuild, genCalls, proxy, probe, suite, race>>

\* line 451: Promise.all rejects as soon as one of the two has rejected
PromiseAllRejects ==
    /\ gen.pc = "calls"
    /\ gen.back = "failed" \/ gen.front = "failed"
    /\ gen' = [gen EXCEPT !.pc = "rejected"]
    /\ written' = {}
    /\ UNCHANGED <<runRest, send, json, cli, cfgBuild, genCalls, proxy, probe, suite, race>>

\* lines 457-465: the merged object
mergeParts(backResult, frontResult) ==
    [files           |-> backResult.files \o frontResult.files,
     backendPm2Name  |-> backResult.keys = "full",
     frontendPm2Name |-> frontResult.keys = "full"]

\* variant: the merge does not wait for the frontend call
GenMerge_BackendOnly ==
    /\ gen.pc = "calls"
    /\ gen.back = "done"
    /\ gen.front # "failed"
    /\ gen' = [gen EXCEPT !.pc = "merged",
                          !.merged = mergeParts(gen.backResult, gen.frontResult)]
    /\ written' = {}
    /\ UNCHANGED <<runRest, send, json, cli, cfgBuild, genCalls, proxy, probe, suite, race>>

\* lines 451-465: Promise.all resolves when both have; spreading a files
\* that is missing raises, else the merged object is returned
GenMerge ==
    /\ gen.pc = "calls"
    /\ gen.back = "done"
    /\ gen.front = "done"
    /\ gen' = IF gen.backResult.keys = "nofiles" \/ gen.frontResult.keys = "nofiles"
              THEN [gen EXCEPT !.pc = "rejected"]
              ELSE [gen EXCEPT !.pc = "merged",
                               !.merged = mergeParts(gen.backResult, gen.frontResult)]
    /\ written' = {}
    /\ UNCHANGED <<runRest, send, json, cli, cfgBuild, genCalls, proxy, probe, suite, race>>

\* index.mjs 507-520: generateCode has returned; the files are written
GenWriteFiles ==
    /\ gen.pc = "merged"
    /\ gen' = [gen EXCEPT !.pc = "written"]
    /\ written' = writeProjectFiles(projectDir, gen.merged.files)
    /\ UNCHANGED <<runRest, send, json, cli, cfgBuild, genCalls, proxy, probe, suite, race>>

\* index.mjs 511-515, 817-825: generateCode has rejected; the error is
\* rethrown to the catch of run(), which exits with 1
GenFailed ==
    /\ gen.pc = "rejected"
    /\ gen' = [gen EXCEPT !.pc = "exited"]
    /\ written' = {}
    /\ UNCHANGED <<runRest, send, json, cli, cfgBuild, genCalls, proxy, probe, suite, race>>

NextGen ==
    \/ BackendSettles
    \/ FrontendSettles
    \/ PromiseAllRejects
    \/ GenMerge
    \/ GenWriteFiles
    \/ GenFailed

SpecGen == InitGen /\ [][NextGen]_vars

\* C25 (as claimed): the merged files are the two calls' files, every path
\* under backend/ or frontend/, none twice, and both pm2 names are there.
C25_MergedWellFormed ==
    gen.pc \in {"merged", "written"} =>
        LET files == gen.merged.files
        IN  /\ Range(files) = Range(gen.backResult.files) \cup Range(gen.frontResult.files)
            /\ \A i \in 1..Len(files) : Head(files[i]) \in {"backend", "frontend"}
            /\ \A i, j \in 1..Len(files) : files[i] = files[j] => i = j
            /\ gen.merged.backendPm2Name
            /\ gen.merged.frontendPm2Name

\* C26: there is a merged result only once both calls have resolved, in
\* either order; when a call fails there is none, code generation ends in
\* the catch of run(), and no file is ever written.
C26_MergeAfterBoth ==
    /\ [](gen.pc \in {"merged", "written"} =>
            /\ gen.back = "done" /\ gen.front = "done"
            /\ Range(gen.order) = {"back", "front"})
    /\ []((gen.back = "failed" \/ gen.front = "failed") =>
            /\ gen.pc \in {"calls", "rejected", "exited"}
            /\ written = {})
    /\ [][written' # {} => (gen.pc = "merged" /\ gen.back = "done" /\ gen.front = "done")]_vars
    /\ [][(gen.pc = "calls" /\ gen.pc' # "calls"
              /\ (gen.back = "failed" \/ gen.front = "failed")) => gen.pc' = "rejected"]_vars
    /\ [][gen.pc = "rejected" => (gen.pc' \in {"rejected", "exited"} /\ written' = {})]_vars

\* the frontend call resolved first, the backend call after it, and the
\* files of both have been written
C26_Witness ==
    /\ gen.pc = "written"
    /\ gen.order = <<"front", "back">>
    /\ Len(gen.merged.files) = 2
    /\ written # {}

-----------------------------------------------------------------------------
(* The model each generator is called with, in one build run (run() of     *)
(* src/src/index.mjs) and in one modify (runModify).                        *)

Complexities == {"simple", "medium", "complex"}

\* variant: code generation always takes the high-capability model
pickModel_AlwaysOpus(complexity) == "OPUS"

\* codegen.mjs (src/unnamed/part_004) 16-19
pickModel(complexity) == IF complexity = "complex" THEN "OPUS" ELSE "HAIKU"

\* the Analysis exists (index.mjs 368), or modify has read the config
InitModels ==
    /\ RunOff
    /\ CliOff
    /\ send = NoSend
    /\ json = NoJSON
    /\ cfgBuild = NoCfgBuild
    /\ gen = NoGen
    /\ proxy = NoProxy
    /\ probe = NoProbe
    /\ suite = NoSuite
    /\ race = NoRace
    /\ \E c \in Complexities, t \in Types, st \in BOOLEAN, op \in {"questions", "modify"} :
          /\ st => t = "frontend"
          /\ genCalls = [NoCalls EXCEPT !.pc = op, !.complexity = c, !.projectType = t,
                                     !.isStatic = st]

CallWith(by, model) ==
    [genCalls EXCEPT !.used = Append(@, [by |-> by, model |-> model])]

\* questioner.mjs 167-197: always MODELS.HAIKU
GenerateQuestions ==
    /\ genCalls.pc = "questions"
    /\ genCalls' = [CallWith("Questioner", "HAIKU") EXCEPT !.pc = "codegen"]
    /\ UNCHANGED <<runVars, send, json, cli, cfgBuild, gen, proxy, probe, suite, race>>

\* codegen.mjs 293-361, 411-466: model = pickModel(analysis.complexity); one
\* call, or the two calls of a fullstack project; then the build loop for a
\* project that has a frontend to build (index.mjs 530-556)
GenerateCode ==
    /\ genCalls.pc = "codegen"
    /\ LET model == pickModel(genCalls.complexity)
           one   == CallWith("CodeGenerator", model)
           all   == IF genCalls.projectType = "fullstack"
                    THEN [one EXCEPT !.used = Append(@, [by |-> "CodeGenerator", model |-> model])]
                    ELSE one
           built == genCalls.projectType = "fullstack"
                      \/ (genCalls.projectType = "frontend" /\ ~genCalls.isStatic)
       IN  genCalls' = [all EXCEPT !.pc = IF built THEN "build" ELSE "done"]
    /\ UNCHANGED <<runVars, send, json, cli, cfgBuild, gen, proxy, probe, suite, race>>

fixerCalls == Len(SelectSeq(genCalls.used, LAMBDA u : u.by = "Fixer"))

\* fixer.mjs 34-52, called by the build loop (index.mjs 256) after a failed
\* attempt that is not the last: always MODELS.OPUS
FixBuildErrors ==
    /\ genCalls.pc = "build"
    /\ fixerCalls < maxAttempts - 1
    /\ genCalls' = CallWith("Fixer", "OPUS")
    /\ UNCHANGED <<runVars, send, json, cli, cfgBuild, gen, proxy, probe, suite, race>>

\* the build loop returns: an attempt succeeded, or none is left
BuildLoopReturns ==
    /\ genCalls.pc = "build"
    /\ genCalls' = [genCalls EXCEPT !.pc = "done"]
    /\ UNCHANGED <<runVars, send, json, cli, cfgBuild, gen, proxy, probe, suite, race>>

\* modifier.mjs 34-48: always MODELS.OPUS
GenerateModification ==
    /\ genCalls.pc = "modify"
    /\ genCalls' = [CallWith("Modifier", "OPUS") EXCEPT !.pc = "done"]
    /\ UNCHANGED <<runVars, send, json, cli, cfgBuild, gen, proxy, probe, suite, race>>

NextModels ==
    \/ GenerateQuestions
    \/ GenerateCode
    \/ FixBuildErrors
    \/ BuildLoopReturns
    \/ GenerateModification

SpecModels == InitModels /\ [][NextModels]_vars

ModelByComplexity == IF genCalls.complexity = "complex" THEN "OPUS" ELSE "HAIKU"

-----------------------------------------------------------------------------
(* The nginx configuration of a deployed project: configureApiProxy,       *)
(* configureStaticFrontend, configureFullstack (nginx.mjs =                 *)
(* src/unnamed/part_006), as called by run() (src/src/index.mjs 565-655).  *)

\* the call sites of run(): index.mjs 575, 596, 605, 634, 645
ProxySites ==
    {"static site", "nextjs frontend", "spa frontend", "fullstack nextjs", "fullstack static"}

\* which function each call site calls
configureFn(site) ==
    IF site \in {"static site", "spa frontend"} THEN "configureStaticFrontend"
    ELSE IF site = "nextjs frontend" THEN "configureApiProxy"
    ELSE "configureFullstack"

InitProxy ==
    /\ RunOff
    /\ CliOff
    /\ send = NoSend
    /\ json = NoJSON
    /\ cfgBuild = NoCfgBuild
    /\ gen = NoGen
    /\ genCalls = NoCalls
    /\ probe = NoProbe
    /\ suite = NoSuite
    /\ race = NoRace
    /\ \E site \in ProxySites, isRoot \in BOOLEAN :
          proxy = [NoProxy EXCEPT !.pc = "call", !.site = site, !.isRoot = isRoot]

\* index.mjs 574-581, 595-609, 633-654: not root, no configure* call;
\* nginxConfigPath stays null
ProxySkipped ==
    /\ proxy.pc = "call"
    /\ ~proxy.isRoot
    /\ proxy' = [proxy EXCEPT !.pc = "recorded"]
    /\ UNCHANGED <<runVars, send, json, cli, cfgBuild, gen, genCalls, probe, suite, race>>

\* part_006 67-80 (117-130, 192-205): fs.writeFile of sites-available/<name>;
\* it raises when it fails, and the catch reports and returns null
ProxyWriteConfig ==
    /\ proxy.pc = "call"
    /\ proxy.isRoot
    /\ \E ok \in BOOLEAN :
          proxy' = IF ok THEN [proxy EXCEPT !.pc = "enable", !.wrote = "ok"]
                   ELSE [proxy EXCEPT !.pc = "returned", !.wrote = "failed",
                                      !.reported = "failure", !.returned = "null"]
    /\ UNCHANGED <<runVars, send, json, cli, cfgBuild, gen, genCalls, probe, suite, race>>

\* part_006 72: await shell('ln -sf ...'); shell (executor.mjs, in
\* src/src/system/tester.mjs 130-142) runs
\* with reject: false, so it returns whatever the exit code; the result is
\* not looked at
ProxyEnable ==
    /\ proxy.pc = "enable"
    /\ \E ok \in BOOLEAN :
          proxy' = [proxy EXCEPT !.pc = "validate", !.enabled = IF ok THEN "ok" ELSE "failed"]
    /\ UNCHANGED <<runVars, send, json, cli, cfgBuild, gen, genCalls, probe, suite, race>>

\* part_006 73: nginx -t, the first half of 'nginx -t && systemctl reload nginx'
ProxyValidate ==
    /\ proxy.pc = "validate"
    /\ \E ok \in BOOLEAN :
          proxy' = IF ok THEN [proxy EXCEPT !.pc = "reload", !.validated = "ok"]
                   ELSE [proxy EXCEPT !.pc = "report", !.validated = "failed",
                                      !.reloaded = "skipped"]
    /\ UNCHANGED <<runVars, send, json, cli, cfgBuild, gen, genCalls, probe, suite, race>>

\* part_006 73: systemctl reload nginx, run when nginx -t exited with 0
ProxyReload ==
    /\ proxy.pc = "reload"
    /\ \E ok \in BOOLEAN :
          proxy' = [proxy EXCEPT !.pc = "report", !.reloaded = IF ok THEN "ok" ELSE "failed"]
    /\ UNCHANGED <<runVars, send, json, cli, cfgBuild, gen, genCalls, probe, suite, race>>

\* part_006 75-76: the shell call has returned; spinnerSuccess and the path
ProxyReturn ==
    /\ proxy.pc = "report"
    /\ proxy' = [proxy EXCEPT !.pc = "returned", !.reported = "success", !.returned = "path"]
    /\ UNCHANGED <<runVars, send, json, cli, cfgBuild, gen, genCalls, probe, suite, race>>

\* index.mjs 575-645, 749: nginxConfigPath = await configure*(...), later
\* nginxConfig: nginxConfigPath || null in config.vbs
ProxyRecord ==
    /\ proxy.pc = "returned"
    /\ proxy' = [proxy EXCEPT !.pc = "recorded", !.recorded = (proxy.returned = "path")]
    /\ UNCHANGED <<runVars, send, json, cli, cfgBuild, gen, genCalls, probe, suite, race>>

NextProxy ==
    \/ ProxySkipped
    \/ ProxyWriteConfig
    \/ ProxyEnable
    \/ ProxyValidate
    \/ ProxyReload
    \/ ProxyReturn
    \/ ProxyRecord

SpecProxy == InitProxy /\ [][NextProxy]_vars

ProxyStepFailed ==
    "failed" \in {proxy.wrote, proxy.enabled, proxy.validated, proxy.reloaded}

\* C29 (as claimed): in every mode, when writing, enabling, validating or
\* reloading fails, the function reports a failure, returns no path, and no
\* proxy config is recorded for the project.
C29_StepFailureReported ==
    (proxy.pc \in {"returned", "recorded"} /\ ProxyStepFailed) =>
        /\ proxy.reported = "failure"
        /\ proxy.returned = "null"
        /\ ~proxy.recorded

-----------------------------------------------------------------------------
(* testEndpoint (src/src/system/tester.mjs 12-52): one request to one      *)
(* endpoint and its classification.                                         *)

Methods == {"GET", "POST"}

\* what fetch does: a response with a status, whose body can be read or not,
\* or an error with a name (AbortSignal.timeout: TimeoutError; refused,
\* reset, unresolved host: TypeError)
Outcomes ==
    [kind : {"response"}, status : 200..599, name : {""}, bodyRead : BOOLEAN]
      \cup [kind : {"error"}, status : {0}, name : {"TimeoutError", "TypeError", "AbortError"},
            bodyRead : {FALSE}]

InitProbe ==
    /\ RunOff
    /\ CliOff
    /\ send = NoSend
    /\ json = NoJSON
    /\ cfgBuild = NoCfgBuild
    /\ gen = NoGen
    /\ genCalls = NoCalls
    /\ proxy = NoProxy
    /\ suite = NoSuite
    /\ race = NoRace
    /\ \E m \in Methods, o \in Outcomes :
          probe = [NoProbe EXCEPT !.pc = "fetch", !.method = m, !.outcome = o]

\* variant: a status of 500 passes as well
testEndpoint_Pass500(method, outcome) ==
    IF outcome.kind = "error"
    THEN [method |-> method, status |-> 0, passed |-> FALSE,
          note |-> IF outcome.name = "TimeoutError" THEN "Timeout" ELSE "Connection Error"]
    ELSE [method |-> method, status |-> outcome.status, passed |-> outcome.status <= 500,
          note |-> IF outcome.status \in {401, 403} THEN "Auth Guard"
                   ELSE IF outcome.status = 400 THEN "Expected"
                   ELSE IF outcome.status = 404 THEN "Not Found"
                   ELSE IF outcome.status = 422 THEN "Validation"
                   ELSE IF outcome.status >= 500 THEN "Server Error"
                   ELSE "OK"]

\* tester.mjs 12-52; a body that cannot be read is ignored (lines 30-34)
testEndpoint(method, outcome) ==
    IF outcome.kind = "error"
    THEN [method |-> method, status |-> 0, passed |-> FALSE,
          note |-> IF outcome.name = "TimeoutError" THEN "Timeout" ELSE "Connection Error"]
    ELSE [method |-> method, status |-> outcome.status, passed |-> outcome.status < 500,
          note |-> IF outcome.status \in {401, 403} THEN "Auth Guard"
                   ELSE IF outcome.status = 400 THEN "Expected"
                   ELSE IF outcome.status = 404 THEN "Not Found"
                   ELSE IF outcome.status = 422 THEN "Validation"
                   ELSE IF outcome.status >= 500 THEN "Server Error"
                   ELSE "OK"]

TestEndpoint ==
    /\ probe.pc = "fetch"
    /\ probe' = [probe EXCEPT !.pc = "done",
                              !.result = testEndpoint(probe.method, probe.outcome)]
    /\ UNCHANGED <<runVars, send, json, cli, cfgBuild, gen, genCalls, proxy, suite, race>>

NextProbe == TestEndpoint

SpecProbe == InitProbe /\ [][NextProbe]_vars

\* C30: a result passes exactly when a response came with a status below
\* 500; an error of fetch gives status 0, not passed, and the note Timeout (a
\* TimeoutError) or Connection Error; for a response the note is Auth Guard
\* for 401 and 403, Expected for 400, Not Found for 404, Validation for 422,
\* Server Error from 500 on, and OK for every other status.
C30_Classification ==
    probe.pc = "done" =>
        LET o == probe.outcome
            r == probe.result
        IN  /\ r.passed <=> (o.kind = "response" /\ o.status < 500)
            /\ o.kind = "error" =>
                  /\ r.status = 0
                  /\ ~r.passed
                  /\ r.note = (IF o.name = "TimeoutError" THEN "Timeout" ELSE "Connection Error")
            /\ o.kind = "response" =>
                  /\ r.status = o.status
                  /\ (r.note = "Auth Guard") <=> (o.status \in {401, 403})
                  /\ (r.note = "Expected") <=> (o.status = 400)
                  /\ (r.note = "Not Found") <=> (o.status = 404)
                  /\ (r.note = "Validation") <=> (o.status = 422)
                  /\ (r.note = "Server Error") <=> (o.status >= 500)
                  /\ (r.note = "OK") <=> (o.status \notin {400, 401, 403, 404, 422} /\ o.status < 500)

\* a 404 was answered, whose body could not be read: passed, Not Found
C30_Witness ==
    /\ probe.pc = "done"
    /\ probe.outcome.kind = "response"
    /\ probe.outcome.status = 404
    /\ ~probe.outcome.bodyRead
    /\ probe.result.passed
    /\ probe.result.note = "Not Found"

-----------------------------------------------------------------------------
(* testAllEndpoints (src/src/system/tester.mjs 59-69): the endpoints of a  *)
(* project tested in a loop, each by testEndpoint.                          *)

\* the endpoints declared by the generated project, by path
EndpointLists == SeqsOf({"/a", "/b"}, 0, MaxEndpoints)

\* what fetch does for one request of the loop
SuiteOutcomes ==
    { [kind |-> "response", status |-> 200, name |-> "", bodyRead |-> TRUE],
      [kind |-> "response", status |-> 500, name |-> "", bodyRead |-> TRUE],
      [kind |-> "error", status |-> 0, name |-> "TimeoutError", bodyRead |-> FALSE] }

\* line 60: const results = []
InitSuite ==
    /\ RunOff
    /\ CliOff
    /\ send = NoSend
    /\ json = NoJSON
    /\ cfgBuild = NoCfgBuild
    /\ gen = NoGen
    /\ genCalls = NoCalls
    /\ proxy = NoProxy
    /\ probe = NoProbe
    /\ race = NoRace
    /\ \E es \in EndpointLists :
          suite = [NoSuite EXCEPT !.pc = IF es = <<>> THEN "return" ELSE "send",
                                  !.endpoints = es]

\* variant: the next request is sent while the last one is still in flight
SuiteSend_NoWait ==
    /\ suite.pc \in {"send", "flight"}
    /\ suite.sent < Len(suite.endpoints)
    /\ suite' = [suite EXCEPT !.pc = "flight", !.sent = @ + 1]
    /\ UNCHANGED <<runVars, send, json, cli, cfgBuild, gen, genCalls, proxy, probe, race>>

\* lines 62-63: testEndpoint(baseUrl, endpoint) is called: the request of the
\* next endpoint goes out
SuiteSend ==
    /\ suite.pc = "send"
    /\ suite' = [suite EXCEPT !.pc = "flight", !.sent = @ + 1]
    /\ UNCHANGED <<runVars, send, json, cli, cfgBuild, gen, genCalls, proxy, probe, race>>

\* lines 63-64: the awaited testEndpoint returns (it catches every error of
\* fetch) and its result is pushed
SuiteResult ==
    /\ suite.pc = "flight"
    /\ \E o \in SuiteOutcomes :
          LET e == suite.endpoints[Len(suite.results) + 1]
              r == testEndpoint("GET", o)
          IN  suite' = [suite EXCEPT !.pc = "delay",
                                     !.results = Append(@, [path |-> e, status |-> r.status,
                                                            passed |-> r.passed])]
    /\ UNCHANGED <<runVars, send, json, cli, cfgBuild, gen, genCalls, proxy, probe, race>>

\* line 65: the 250 ms timer fires; the loop goes on, or ends (line 68)
SuiteDelay ==
    /\ suite.pc = "delay"
    /\ suite' = [suite EXCEPT !.pc = IF suite.delays + 1 < Len(suite.endpoints)
                                     THEN "send" ELSE "return",
                              !.delays = @ + 1]
    /\ UNCHANGED <<runVars, send, json, cli, cfgBuild, gen, genCalls, proxy, probe, race>>

NextSuite ==
    \/ SuiteSend
    \/ SuiteResult
    \/ SuiteDelay

SpecSuite == InitSuite /\ [][NextSuite]_vars

\* C31: a request is sent only when every request before it has its result
\* and the delay after each of them has elapsed; the returned list has one
\* result per endpoint, in the order of the endpoints.
C31_OneAtATime ==
    /\ [][suite.sent' = suite.sent + 1 =>
            /\ Len(suite.results) = suite.sent
            /\ suite.delays = suite.sent]_vars
    /\ [](suite.sent - Len(suite.results) \in {0, 1})
    /\ [](suite.pc = "return" =>
            /\ Len(suite.results) = Len(suite.endpoints)
            /\ \A i \in 1..Len(suite.endpoints) : suite.results[i].path = suite.endpoints[i])

\* two endpoints tested, the first with a transport failure, the list returned
C31_Witness ==
    /\ suite.pc = "return"
    /\ Len(suite.endpoints) = 2
    /\ suite.results[1].status = 0
    /\ suite.results[2].passed
    /\ suite.delays = 2

-----------------------------------------------------------------------------
(* Two processes (two vbs runs on one machine) that call registerProject   *)
(* (src/src/projects/registry.mjs 12-30) at the same time, on the one      *)
(* ~/.vbs/projects.json.                                                    *)

Callers == {"p1", "p2"}

\* projects.json before the two calls: absent, or left by earlier runs
OldRegistries ==
    { <<>>,
      << [name |-> "old", dir |-> "/srv/old", type |-> "api"] >>,
      << [name |-> "shop", dir |-> "/old/shop", type |-> "api"],
         [name |-> "old", dir |-> "/srv/old", type |-> "api"] >> }

InitRace ==
    /\ RunOff
    /\ CliOff
    /\ send = NoSend
    /\ json = NoJSON
    /\ cfgBuild = NoCfgBuild
    /\ gen = NoGen
    /\ genCalls = NoCalls
    /\ proxy = NoProxy
    /\ probe = NoProbe
    /\ suite = NoSuite
    /\ \E old \in OldRegistries, e1 \in Entries, e2 \in Entries :
          /\ e1.name # e2.name
          /\ race = [NoRace EXCEPT !.file = old,
                                   !.p1 = [NoCaller EXCEPT !.pc = "load", !.entry = e1],
                                   !.p2 = [NoCaller EXCEPT !.pc = "load", !.entry = e2]]

\* registry.mjs 12-18, 26: const reg = await load(): the whole document as it
\* is now ({projects: []} when it cannot be read)
RaceLoad ==
    /\ \E c \in Callers :
          /\ race[c].pc = "load"
          /\ race' = [race EXCEPT ![c].pc = "save", ![c].reg = race.file,
                                  !.log = Append(@, <<c, "load">>)]
    /\ UNCHANGED <<runVars, send, json, cli, cfgBuild, gen, genCalls, proxy, probe, suite>>

\* variant: the save reads the document again and puts the entry into that
RaceSave_Reload ==
    /\ \E c \in Callers :
          /\ race[c].pc = "save"
          /\ race' = [race EXCEPT ![c].pc = "done",
                                  !.file = registerProject(race.file, race[c].entry),
                                  !.log = Append(@, <<c, "save">>)]
    /\ UNCHANGED <<runVars, send, json, cli, cfgBuild, gen, genCalls, proxy, probe, suite>>

\* registry.mjs 20-23, 27-29: filter and unshift on the loaded document, then
\* save(reg) writes the whole document over the file
RaceSave ==
    /\ \E c \in Callers :
          /\ race[c].pc = "save"
          /\ race' = [race EXCEPT ![c].pc = "done",
                                  !.file = registerProject(race[c].reg, race[c].entry),
                                  !.log = Append(@, <<c, "save">>)]
    /\ UNCHANGED <<runVars, send, json, cli, cfgBuild, gen, genCalls, proxy, probe, suite>>

NextRace ==
    \/ RaceLoad
    \/ RaceSave

SpecRace == InitRace /\ [][NextRace]_vars

RaceDone == race.p1.pc = "done" /\ race.p2.pc = "done"

\* where an event stands in the log
LogIndex(ev) == CHOOSE i \in 1..Len(race.log) : race.log[i] = ev

InFile(entry) == \E i \in 1..Len(race.file) : race.file[i] = entry

\* C40: nothing orders the two calls.  When both have saved, the document
\* has the entry of the one that saved last, and it has the entry of the
\* other one exactly when the last one loaded after the other had saved: with
\* both loads before both saves, one of the two new entries is lost.
C40_LostUpdate ==
    RaceDone =>
        LET last  == race.log[Len(race.log)][1]
            first == CHOOSE c \in Callers : c # last
        IN  /\ race.file[1] = race[last].entry
            /\ InFile(race[first].entry)
                 <=> LogIndex(<<last, "load">>) > LogIndex(<<first, "save">>)

\* both processes loaded before either saved; the document holds the entry
\* of p2 and not that of p1
C40_Witness ==
    /\ RaceDone
    /\ race.log = << <<"p1", "load">>, <<"p2", "load">>, <<"p1", "save">>, <<"p2", "save">> >>
    /\ InFile(race.p2.entry)
    /\ ~InFile(race.p1.entry)

====
